---- MODULE Spec2Model ----
(***************************************************************************)
(* Model of the MIPS simulator backend (class MIPSSimulator) and of the    *)
(* front-end handlers that drive it.                                       *)
(*                                                                         *)
(* JavaScript numbers.  TLC integers are 32-bit signed, so a JavaScript    *)
(* integer-valued number v is kept as the pair <<hi, lo>> with             *)
(* v = hi * 65536 + lo and lo \in 0..65535 (hi is any integer).  NaN and   *)
(* undefined are pairs with a negative lo.  The 32-bit conversions of the  *)
(* language (ToInt32, ToUint32) and its operators (|, &, ^, ~, <<, >>,     *)
(* >>>) are defined on that representation.  Small quantities (register    *)
(* indices, field values, cycle counts, array indices) are plain integers. *)
(***************************************************************************)
EXTENDS Integers, Sequences, FiniteSets, TLC

\* 2^n for n in 0..30
Pow2(n) == 2^n

W16 == 2^16
H15 == 2^15

NaN == <<0, -1>>
undefined == <<0, -2>>

IsNum(a) == a[2] >= 0

\* the number hi * 65536 + lo, for any integers hi and lo
Norm(hi, lo) == <<hi + (lo \div W16), lo % W16>>

\* a small integer as a number
Num(n) == <<n \div W16, n % W16>>

\* a + b
NumAdd(a, b) == IF IsNum(a) /\ IsNum(b) THEN Norm(a[1] + b[1], a[2] + b[2]) ELSE NaN

\* a - b
NumSub(a, b) == IF IsNum(a) /\ IsNum(b) THEN Norm(a[1] - b[1], a[2] - b[2]) ELSE NaN

\* a < b (false when either is NaN)
NumLt(a, b) == IsNum(a) /\ IsNum(b) /\ (a[1] < b[1] \/ (a[1] = b[1] /\ a[2] < b[2]))

\* x >>> 0 : NaN and undefined become 0
ToUint32(a) == IF IsNum(a) THEN <<a[1] % W16, a[2]>> ELSE <<0, 0>>

\* x | 0
ToInt32(a) ==
  IF IsNum(a)
  THEN LET h == a[1] % W16 IN <<IF h >= H15 THEN h - W16 ELSE h, a[2]>>
  ELSE <<0, 0>>

\* the value of a number known to be small
Small(a) == a[1] * W16 + a[2]

\* x & y for naturals below 16
And4(x, y) ==
  ((x % 2) * (y % 2)) + 2 * (((x \div 2) % 2) * ((y \div 2) % 2))
    + 4 * (((x \div 4) % 2) * ((y \div 4) % 2)) + 8 * ((x \div 8) * (y \div 8))

\* x & y for naturals below 16^n
RECURSIVE And16(_, _, _)
And16(x, y, n) ==
  IF n = 0 \/ x = 0 \/ y = 0 THEN 0
  ELSE And4(x % 16, y % 16) + 16 * And16(x \div 16, y \div 16, n - 1)

\* x | y and x ^ y for naturals below 16^n
Or16(x, y, n) == x + y - And16(x, y, n)
Xor16(x, y, n) == x + y - 2 * And16(x, y, n)

\* a & b
BitAnd(a, b) ==
  IF a = b THEN ToInt32(a)
  ELSE LET x == ToUint32(a)
           y == ToUint32(b)
       IN ToInt32(<<And16(x[1], y[1], 4), And16(x[2], y[2], 4)>>)

\* a | b
BitOr(a, b) ==
  IF a = b THEN ToInt32(a)
  ELSE LET x == ToUint32(a)
           y == ToUint32(b)
       IN ToInt32(<<Or16(x[1], y[1], 4), Or16(x[2], y[2], 4)>>)

\* a ^ b
BitXor(a, b) ==
  IF a = b THEN Num(0)
  ELSE LET x == ToUint32(a)
           y == ToUint32(b)
       IN ToInt32(<<Xor16(x[1], y[1], 4), Xor16(x[2], y[2], 4)>>)

\* ~a
BitNot(a) == LET x == ToUint32(a) IN ToInt32(<<W16 - 1 - x[1], W16 - 1 - x[2]>>)

\* the shift count of <<, >> and >>> : the low five bits of the right operand
ShiftCount(b) == ToUint32(b)[2] % 32

\* a << b
Shl(a, b) ==
  LET x == ToUint32(a)
      n == ShiftCount(b)
  IN IF n = 0 \/ x = <<0, 0>> THEN ToInt32(x)
     ELSE IF n >= 16
     THEN ToInt32(<<(x[2] % Pow2(32 - n)) * Pow2(n - 16), 0>>)
     ELSE ToInt32(<<(x[1] % Pow2(16 - n)) * Pow2(n) + ((x[2] * Pow2(n)) \div W16),
                    (x[2] * Pow2(n)) % W16>>)

\* a >>> b
Shru(a, b) ==
  LET x == ToUint32(a)
      n == ShiftCount(b)
  IN IF n = 0 \/ x = <<0, 0>> THEN x
     ELSE IF n >= 16
     THEN <<0, x[1] \div Pow2(n - 16)>>
     ELSE <<x[1] \div Pow2(n), (x[1] % Pow2(n)) * Pow2(16 - n) + (x[2] \div Pow2(n))>>

\* a >> b
Shr(a, b) ==
  LET x == ToInt32(a)
      n == ShiftCount(b)
  IN IF n = 0 \/ x = <<0, 0>> THEN x
     ELSE IF n >= 16
     THEN Num(x[1] \div Pow2(n - 16))
     ELSE <<x[1] \div Pow2(n), (x[1] % Pow2(n)) * Pow2(16 - n) + (x[2] \div Pow2(n))>>


(***************************************************************************)
(* Source text.  A program text is a sequence of lines; a line is given by *)
(* what parseLine's regular expressions extract from it: the label before  *)
(* a colon ("" when none), the first token ("" when the line is blank or   *)
(* only a comment) and the remaining tokens, a token of the form           *)
(* -?digits(reg) being given by its two parts.                             *)
(***************************************************************************)

\* an operand token
Tok(text) == [type |-> "str", text |-> text, offset |-> 0, reg |-> ""]

\* an operand token of the form offset(reg)
Mem(off, r) == [type |-> "offset_reg", text |-> "", offset |-> off, reg |-> r]

Line(label, mnemonic, args) == [label |-> label, mnemonic |-> mnemonic, args |-> args]

regNames ==
  [r \in {"$zero", "$at", "$v0", "$v1", "$a0", "$a1", "$a2", "$a3",
          "$t0", "$t1", "$t2", "$t3", "$t4", "$t5", "$t6", "$t7",
          "$s0", "$s1", "$s2", "$s3", "$s4", "$s5", "$s6", "$s7",
          "$t8", "$t9", "$k0", "$k1", "$gp", "$sp", "$fp", "$ra"} |->
     CASE r = "$zero" -> 0  [] r = "$at" -> 1  [] r = "$v0" -> 2  [] r = "$v1" -> 3
       [] r = "$a0" -> 4  [] r = "$a1" -> 5  [] r = "$a2" -> 6  [] r = "$a3" -> 7
       [] r = "$t0" -> 8  [] r = "$t1" -> 9  [] r = "$t2" -> 10 [] r = "$t3" -> 11
       [] r = "$t4" -> 12 [] r = "$t5" -> 13 [] r = "$t6" -> 14 [] r = "$t7" -> 15
       [] r = "$s0" -> 16 [] r = "$s1" -> 17 [] r = "$s2" -> 18 [] r = "$s3" -> 19
       [] r = "$s4" -> 20 [] r = "$s5" -> 21 [] r = "$s6" -> 22 [] r = "$s7" -> 23
       [] r = "$t8" -> 24 [] r = "$t9" -> 25 [] r = "$k0" -> 26 [] r = "$k1" -> 27
       [] r = "$gp" -> 28 [] r = "$sp" -> 29 [] r = "$fp" -> 30 [] r = "$ra" -> 31]

\* the registers written $0 .. $31
numericRegs ==
  [r \in {"$0", "$1", "$2", "$3", "$4", "$8", "$9", "$10", "$31"} |->
     CASE r = "$0" -> 0 [] r = "$1" -> 1 [] r = "$2" -> 2 [] r = "$3" -> 3
       [] r = "$4" -> 4 [] r = "$8" -> 8 [] r = "$9" -> 9 [] r = "$10" -> 10
       [] r = "$31" -> 31]

\* String.prototype.toLowerCase on the texts that contain capitals
toLowerCase(t) ==
  CASE t = "$T0" -> "$t0"
    [] t = "$ZERO" -> "$zero"
    [] t = "ADDI" -> "addi"
    [] t = "Syscall" -> "syscall"
    [] OTHER -> t

opcodes ==
  [m \in {"R", "j", "jal", "beq", "bne", "blez", "bgtz", "addi", "addiu", "slti",
          "sltiu", "andi", "ori", "xori", "lui", "lb", "lh", "lwl", "lw", "lbu",
          "lhu", "lwr", "sb", "sh", "swl", "sw", "swr"} |->
     CASE m = "R" -> 0 [] m = "j" -> 2 [] m = "jal" -> 3
       [] m = "beq" -> 4 [] m = "bne" -> 5 [] m = "blez" -> 6 [] m = "bgtz" -> 7
       [] m = "addi" -> 8 [] m = "addiu" -> 9 [] m = "slti" -> 10 [] m = "sltiu" -> 11
       [] m = "andi" -> 12 [] m = "ori" -> 13 [] m = "xori" -> 14 [] m = "lui" -> 15
       [] m = "lb" -> 32 [] m = "lh" -> 33 [] m = "lwl" -> 34 [] m = "lw" -> 35
       [] m = "lbu" -> 36 [] m = "lhu" -> 37 [] m = "lwr" -> 38
       [] m = "sb" -> 40 [] m = "sh" -> 41 [] m = "swl" -> 42 [] m = "sw" -> 43
       [] m = "swr" -> 46]

functCodes ==
  [m \in {"sll", "srl", "sra", "sllv", "srlv", "srav", "jr", "jalr", "syscall",
          "mfhi", "mthi", "mflo", "mtlo", "mult", "multu", "div", "divu", "add",
          "addu", "sub", "subu", "and", "or", "xor", "nor", "slt", "sltu"} |->
     CASE m = "sll" -> 0 [] m = "srl" -> 2 [] m = "sra" -> 3 [] m = "sllv" -> 4
       [] m = "srlv" -> 6 [] m = "srav" -> 7 [] m = "jr" -> 8 [] m = "jalr" -> 9
       [] m = "syscall" -> 12 [] m = "mfhi" -> 16 [] m = "mthi" -> 17
       [] m = "mflo" -> 18 [] m = "mtlo" -> 19 [] m = "mult" -> 24
       [] m = "multu" -> 25 [] m = "div" -> 26 [] m = "divu" -> 27
       [] m = "add" -> 32 [] m = "addu" -> 33 [] m = "sub" -> 34 [] m = "subu" -> 35
       [] m = "and" -> 36 [] m = "or" -> 37 [] m = "xor" -> 38 [] m = "nor" -> 39
       [] m = "slt" -> 42 [] m = "sltu" -> 43]

\* table[key], or the default when the table has no such key (undefined)
lookup(table, key, default) == IF key \in DOMAIN table THEN table[key] ELSE default

\* parseRegister: the register index, or -1 when it throws "Invalid register".
\* An offset(reg) operand reads as "[object Object]" and is no register.
parseRegisterText(t) == lookup(numericRegs, t, lookup(regNames, toLowerCase(t), -1))

\* String(x) of an operand
String(a) == IF a.type = "str" THEN a.text ELSE "[object Object]"

parseRegister(a) == IF a.type = "str" THEN parseRegisterText(a.text) ELSE -1

\* what parseInt makes of the literals, by the prefix rules of parseImmediate:
\* 0x/0X base 16, 0b/0B base 2 after the prefix, base 10 otherwise
literals ==
  [t \in {"0", "1", "2", "3", "4", "5", "7", "10", "-1", "-3", "0x100", "0x42",
          "0x00400000", "0xDEAD", "0xBEEF", "0b101", "32", "33", "65536",
          "-32769", "4998", "-7", "0x8000", "0x7F80", "12", "14", "0x0040"} |->
     CASE t = "0" -> Num(0) [] t = "1" -> Num(1) [] t = "2" -> Num(2)
       [] t = "3" -> Num(3) [] t = "4" -> Num(4) [] t = "5" -> Num(5)
       [] t = "7" -> Num(7) [] t = "10" -> Num(10) [] t = "-1" -> Num(-1)
       [] t = "-3" -> Num(-3) [] t = "0x100" -> Num(256) [] t = "0x42" -> Num(66)
       [] t = "0x00400000" -> <<64, 0>> [] t = "0xDEAD" -> Num(57005)
       [] t = "0xBEEF" -> Num(48879) [] t = "0b101" -> Num(5)
       [] t = "32" -> Num(32) [] t = "33" -> Num(33) [] t = "65536" -> Num(65536)
       [] t = "-32769" -> Num(-32769) [] t = "4998" -> Num(4998)
       [] t = "-7" -> Num(-7) [] t = "0x8000" -> Num(32768) [] t = "0x7F80" -> Num(32640)
       [] t = "12" -> Num(12) [] t = "14" -> Num(14) [] t = "0x0040" -> Num(64)]

\* parseImmediate of an operand token; any other text parses to NaN
parseImmediate(a) == lookup(literals, a.text, NaN)

\* parseLine: "null", "label" or "instruction"
parseLine(line) ==
  IF line.mnemonic = ""
  THEN IF line.label = "" THEN [type |-> "null"] ELSE [type |-> "label", label |-> line.label]
  ELSE [type |-> "instruction", mnemonic |-> toLowerCase(line.mnemonic),
        args |-> line.args, label |-> line.label]

\* a thrown Error with the pieces of its message
Throw(msg) == [kind |-> "throw", message |-> msg]
Word(w) == [kind |-> "word", word |-> w]

\* instruction |= (value << shift)
orField(instruction, value, shift) == BitOr(instruction, Shl(value, Num(shift)))

\* encodeRType once the registers are parsed
encodeRTypeNums(mnemonic, rd, rs, rt, rdNum, rsNum, rtNum, shamt) ==
  IF rdNum = -1 THEN Throw(<<"Invalid register: ", String(rd)>>)
  ELSE IF rsNum = -1 THEN Throw(<<"Invalid register: ", String(rs)>>)
  ELSE IF rtNum = -1 THEN Throw(<<"Invalid register: ", String(rt)>>)
  ELSE Word(ToUint32(
         BitOr(orField(orField(orField(orField(orField(Num(0),
                 Num(opcodes["R"]), 26), Num(rsNum), 21), Num(rtNum), 16), Num(rdNum), 11),
                 shamt, 6),
               Num(lookup(functCodes, mnemonic, 0)))))

\* encodeRType, given the three register operands and the shamt number
encodeRType(mnemonic, rd, rs, rt, shamt) ==
  encodeRTypeNums(mnemonic, rd, rs, rt,
                  parseRegister(rd), parseRegister(rs), parseRegister(rt), shamt)

\* (imm < 0) ? (imm & 0xffff) : imm
imm16(imm) == IF NumLt(imm, Num(0)) THEN BitAnd(imm, Num(65535)) ELSE imm

\* encodeIType once the registers are parsed
encodeITypeNums(mnemonic, rt, rs, rtNum, rsNum, imm) ==
  IF rtNum = -1 THEN Throw(<<"Invalid register: ", String(rt)>>)
  ELSE IF rsNum = -1 THEN Throw(<<"Invalid register: ", String(rs)>>)
  ELSE Word(ToUint32(
         BitOr(orField(orField(orField(Num(0),
                 Num(opcodes[mnemonic]), 26), Num(rsNum), 21), Num(rtNum), 16),
               BitAnd(imm16(imm), Num(65535)))))

\* encodeIType, given the two register operands and the immediate number
encodeITypeNum(mnemonic, rt, rs, imm) ==
  IF mnemonic \notin DOMAIN opcodes
  THEN Throw(<<"Unknown I-type instruction: ", mnemonic>>)
  ELSE encodeITypeNums(mnemonic, rt, rs, parseRegister(rt), parseRegister(rs), imm)

\* encodeIType with the immediate given as an operand token
encodeIType(mnemonic, rt, rs, immediate) ==
  IF immediate.type # "str" /\ parseRegister(rt) # -1 /\ parseRegister(rs) # -1
  THEN Throw(<<"imm.trim is not a function">>)
  ELSE encodeITypeNum(mnemonic, rt, rs, parseImmediate(immediate))

\* mutant: the byte address goes into the field unshifted
encodeJTypeByteAddress(mnemonic, address) ==
  IF mnemonic \notin DOMAIN opcodes
  THEN Throw(<<"Unknown J-type instruction: ", mnemonic>>)
  ELSE Word(ToUint32(BitOr(orField(Num(0), Num(opcodes[mnemonic]), 26),
                           BitAnd(address, <<1023, 65535>>))))

\* encodeJType, given the address number
encodeJType(mnemonic, address) ==
  IF mnemonic \notin DOMAIN opcodes
  THEN Throw(<<"Unknown J-type instruction: ", mnemonic>>)
  ELSE Word(ToUint32(BitOr(orField(Num(0), Num(opcodes[mnemonic]), 26),
                           BitAnd(Shru(address, Num(2)), <<1023, 65535>>))))

\* the catch clause of encodeInstruction
Rethrow(mnemonic, e) ==
  IF e.kind = "throw" THEN Throw(<<"Error encoding ", mnemonic, ": ">> \o e.message) ELSE e

zeroReg == Tok("$zero")

invalidArguments(mnemonic) == Throw(<<"Invalid arguments for ", mnemonic>>)

\* the switch of encodeInstruction, n being args.length
encodeSwitch(mnemonic, args, n) ==
  CASE mnemonic \in {"add", "addu", "sub", "subu", "and", "or", "xor", "nor", "slt", "sltu",
                     "sllv", "srlv", "srav"} ->
         IF n # 3 THEN invalidArguments(mnemonic)
         ELSE encodeRType(mnemonic, args[1], args[3], args[2], Num(0))
    [] mnemonic \in {"sll", "srl", "sra"} ->
         IF n # 3 THEN invalidArguments(mnemonic)
         ELSE IF args[3].type # "str" THEN Throw(<<"imm.trim is not a function">>)
         ELSE encodeRType(mnemonic, args[1], args[2], zeroReg, parseImmediate(args[3]))
    [] mnemonic = "jr" ->
         IF n # 1 THEN invalidArguments(mnemonic)
         ELSE encodeRType("jr", zeroReg, args[1], zeroReg, Num(0))
    [] mnemonic \in {"mfhi", "mflo"} ->
         IF n # 1 THEN invalidArguments(mnemonic)
         ELSE encodeRType(mnemonic, args[1], zeroReg, zeroReg, Num(0))
    [] mnemonic \in {"mult", "multu", "div", "divu"} ->
         IF n # 2 THEN invalidArguments(mnemonic)
         ELSE encodeRType(mnemonic, zeroReg, args[1], args[2], Num(0))
    [] mnemonic = "syscall" -> encodeRType("syscall", zeroReg, zeroReg, zeroReg, Num(0))
    [] mnemonic = "nop" -> Word(Num(0))
    [] mnemonic \in {"addi", "addiu", "andi", "ori", "xori", "slti", "sltiu"} ->
         IF n # 3 THEN invalidArguments(mnemonic)
         ELSE encodeIType(mnemonic, args[1], args[2], args[3])
    [] mnemonic = "lui" ->
         IF n # 2 THEN invalidArguments(mnemonic)
         ELSE encodeIType("lui", args[1], zeroReg, args[2])
    [] mnemonic \in {"lw", "lh", "lb", "sw", "sh", "sb"} ->
         IF n # 2 THEN invalidArguments(mnemonic)
         ELSE IF args[2].type # "offset_reg" THEN Throw(<<"Invalid memory access format">>)
         ELSE encodeITypeNum(mnemonic, args[1], Tok(args[2].reg), Num(args[2].offset))
    [] mnemonic \in {"beq", "bne"} ->
         IF n # 3 THEN invalidArguments(mnemonic) ELSE [kind |-> "branch"]
    [] mnemonic \in {"bgtz", "blez"} ->
         IF n # 2 THEN invalidArguments(mnemonic) ELSE [kind |-> "branch"]
    [] mnemonic \in {"j", "jal"} ->
         IF n # 1 THEN invalidArguments(mnemonic) ELSE [kind |-> "jump"]
    [] OTHER -> Throw(<<"Unknown instruction: ", mnemonic>>)

\* encodeInstruction: a word, a branch or jump left for label resolution, or a throw
encodeInstruction(parsed) ==
  Rethrow(parsed.mnemonic, encodeSwitch(parsed.mnemonic, parsed.args, Len(parsed.args)))


(***************************************************************************)
(* The simulator object.  The operations are functions from the object s   *)
(* (a record of its fields) to the object after the call; the actions      *)
(* below apply them to the variables.                                      *)
(***************************************************************************)

TextBase == <<64, 0>>          \* 0x00400000

noLabels == [defined |-> FALSE, map |-> << >>]

\* labels[name] = idx
setLabel(labels, name, idx) ==
  [l \in (DOMAIN labels) \cup {name} |-> IF l = name THEN idx ELSE labels[l]]

\* first pass of loadProgram over lines[i..]: the instruction lines and the labels
RECURSIVE firstPass(_, _, _, _)
firstPass(lines, i, program, labels) ==
  IF i > Len(lines) THEN [program |-> program, labels |-> labels]
  ELSE LET parsed == parseLine(lines[i])
       IN CASE parsed.type = "null" -> firstPass(lines, i + 1, program, labels)
            [] parsed.type = "label" ->
                 firstPass(lines, i + 1, program, setLabel(labels, parsed.label, Len(program)))
            [] OTHER ->
                 firstPass(lines, i + 1, Append(program, parsed),
                           IF parsed.label # "" THEN setLabel(labels, parsed.label, Len(program))
                           ELSE labels)

\* names that every object inherits from Object.prototype (some of them): the
\* label table is a plain object, so labels[name] is a function for these
\* names even when the program defines no such label
objectPrototype == {"constructor", "toString", "valueOf", "hasOwnProperty"}

\* labels[name] !== undefined
hasLabel(labels, name) == name \in DOMAIN labels \/ name \in objectPrototype

\* labels[name] in arithmetic: the index, NaN for an inherited function
labelIndex(labels, name) == IF name \in DOMAIN labels THEN Num(labels[name]) ELSE NaN

\* a * 4
NumTimes4(a) == NumAdd(NumAdd(a, a), NumAdd(a, a))

\* the branch once its label is resolved to the offset
encodeBranch(mnemonic, args, offset) ==
  IF mnemonic \in {"beq", "bne"}
  THEN encodeITypeNum(mnemonic, args[1], args[2], offset)
  ELSE encodeITypeNum(mnemonic, args[1], args[1], offset)

\* mutant: the offset is counted from the branch, not from the instruction
\* after it
resolveBranchFromBranch(parsed, labels, i, label) ==
  IF label.type = "str" /\ hasLabel(labels, label.text)
  THEN encodeBranch(parsed.mnemonic, parsed.args,
                    NumSub(labelIndex(labels, label.text), Num(i)))
  ELSE Throw(<<"Undefined label: ", String(label)>>)

\* label resolution of the branch at index i (0-based) of the program, label
\* being its last operand
resolveBranch(parsed, labels, i, label) ==
  IF label.type = "str" /\ hasLabel(labels, label.text)
  THEN encodeBranch(parsed.mnemonic, parsed.args,
                    NumSub(NumSub(labelIndex(labels, label.text), Num(i)), Num(1)))
  ELSE Throw(<<"Undefined label: ", String(label)>>)

\* label resolution of a jump, label being its operand
resolveJump(parsed, labels, label) ==
  IF label.type = "str" /\ hasLabel(labels, label.text)
  THEN encodeJType(parsed.mnemonic,
                   NumAdd(TextBase, NumTimes4(labelIndex(labels, label.text))))
  ELSE Throw(<<"Undefined label: ", String(label)>>)

\* what the second pass makes of the encoded line at index i (0-based): the
\* word, or the Error thrown
resolve(parsed, labels, i, encoded) ==
  CASE encoded.kind = "branch" ->
         resolveBranch(parsed, labels, i, parsed.args[Len(parsed.args)])
    [] encoded.kind = "jump" -> resolveJump(parsed, labels, parsed.args[1])
    [] OTHER -> encoded

\* this.instructions after the second pass has gone through the resolved
\* lines: the lines before the first that throws
pushed(program, pc, resolved, n) ==
  [i \in 1..n |-> [mnemonic |-> program[i].mnemonic, args |-> program[i].args,
                   label |-> program[i].label, binary |-> resolved[i].word,
                   address |-> NumAdd(pc, Num((i - 1) * 4))]]

\* the end of the second pass, thrown being the lines that throw
secondPassEnd(program, pc, resolved, thrown) ==
  IF thrown = {}
  THEN [instructions |-> pushed(program, pc, resolved, Len(program)), error |-> << >>]
  ELSE [instructions |->
          pushed(program, pc, resolved, (CHOOSE i \in thrown : \A j \in thrown : i <= j) - 1),
        error |-> resolved[CHOOSE i \in thrown : \A j \in thrown : i <= j].message]

\* the lines of the program that throw
throwing(resolved) == {i \in DOMAIN resolved : resolved[i].kind = "throw"}

\* the second pass over the resolved lines
secondPassOver(program, pc, resolved) ==
  secondPassEnd(program, pc, resolved, throwing(resolved))

\* second pass of loadProgram: this.instructions as the pass leaves it, and the
\* Error that ended it, if any
secondPass(program, labels, pc) ==
  secondPassOver(program, pc,
                 [i \in 1..Len(program) |->
                    resolve(program[i], labels, i - 1, encodeInstruction(program[i]))])

\* what a call returned (or threw): absent numbers are -1
Result(op, success, thrown, message, haltedFlag, steps, count) ==
  [op |-> op, success |-> success, thrown |-> thrown, message |-> message,
   halted |-> haltedFlag, steps |-> steps, instructions |-> count]

\* mutant: a successful load also puts PC back to the start of the text
loadEndRestartsPC(s, labels, p2) ==
  IF p2.error # << >>
  THEN [s EXCEPT !.instructions = p2.instructions,
                 !.result = Result("loadProgram", FALSE, TRUE, p2.error, FALSE, -1, -1)]
  ELSE [s EXCEPT !.instructions = p2.instructions,
                 !.labels = [defined |-> TRUE, map |-> labels],
                 !.PC = TextBase,
                 !.loaded = TRUE,
                 !.halted = FALSE,
                 !.cycle = 0,
                 !.instructionCount = 0,
                 !.debugLog = << >>,
                 !.usedMemoryAddresses = {},
                 !.result = Result("loadProgram", TRUE, FALSE, << >>, FALSE, -1,
                                   Len(p2.instructions))]

\* the end of loadProgram, p2 being what the second pass left
loadEnd(s, labels, p2) ==
  IF p2.error # << >>
  THEN [s EXCEPT !.instructions = p2.instructions,
                 !.result = Result("loadProgram", FALSE, TRUE, p2.error, FALSE, -1, -1)]
  ELSE [s EXCEPT !.instructions = p2.instructions,
                 !.labels = [defined |-> TRUE, map |-> labels],
                 !.loaded = TRUE,
                 !.halted = FALSE,
                 !.cycle = 0,
                 !.instructionCount = 0,
                 !.debugLog = << >>,
                 !.usedMemoryAddresses = {},
                 !.result = Result("loadProgram", TRUE, FALSE, << >>, FALSE, -1,
                                   Len(p2.instructions))]

\* loadProgram after the first pass p1
loadSecond(s, p1) == loadEnd(s, p1.labels, secondPass(p1.program, p1.labels, s.PC))

\* loadProgram(assemblyText)
loadProgram(s, lines) == loadSecond(s, firstPass(lines, 1, << >>, << >>))

MemorySize == 65536

\* this.memory[a]: the memory is kept as the function of its non-zero bytes
byteAt(memory, a) == IF a \in DOMAIN memory THEN memory[a] ELSE 0

\* this.memory[a] = v, for a byte v
setByte(memory, a, v) ==
  IF v = 0 THEN [b \in (DOMAIN memory) \ {a} |-> memory[b]]
  ELSE [b \in (DOMAIN memory) \cup {a} |-> IF b = a THEN v ELSE memory[b]]

\* readMemory for the unsigned address addr: the byte read
readByte(s, addr) == IF NumLt(addr, Num(MemorySize)) THEN byteAt(s.memory, Small(addr)) ELSE 0

\* readMemory(address): the byte read
readMemory(s, address) == readByte(s, ToUint32(address))

\* readMemory for the unsigned address addr: the object after the read
readByteUsed(s, addr) ==
  IF NumLt(addr, Num(MemorySize))
  THEN [s EXCEPT !.usedMemoryAddresses = @ \cup {Small(addr)}]
  ELSE s

\* readMemory(address): the object after the read
readMemoryUsed(s, address) == readByteUsed(s, ToUint32(address))

\* mutant: an address outside the memory wraps around into it
writeByteWraps(s, addr, value) ==
  [s EXCEPT !.memory = setByte(@, addr[2], ToUint32(value)[2] % 256),
            !.usedMemoryAddresses = @ \cup {addr[2]}]

\* writeMemory for the unsigned address addr
writeByte(s, addr, value) ==
  IF NumLt(addr, Num(MemorySize))
  THEN [s EXCEPT !.memory = setByte(@, Small(addr), ToUint32(value)[2] % 256),
                 !.usedMemoryAddresses = @ \cup {Small(addr)}]
  ELSE s

\* writeMemory(address, value), value a number
writeMemory(s, address, value) == writeByte(s, ToUint32(address), value)

\* address & ~0x3
alignWord(address) == BitAnd(address, BitNot(Num(3)))

\* readWord at the aligned address addr: the word read
readWordAt(s, addr) ==
  BitOr(BitOr(BitOr(Shl(Num(readMemory(s, addr)), Num(24)),
                    Shl(Num(readMemory(s, NumAdd(addr, Num(1)))), Num(16))),
              Shl(Num(readMemory(s, NumAdd(addr, Num(2)))), Num(8))),
        Num(readMemory(s, NumAdd(addr, Num(3)))))

\* readWord(address): the word read
readWord(s, address) == readWordAt(s, alignWord(address))

\* readWord at the aligned address addr: the object after the read
readWordAtUsed(s, addr) ==
  readMemoryUsed(readMemoryUsed(readMemoryUsed(readMemoryUsed(s, addr),
    NumAdd(addr, Num(1))), NumAdd(addr, Num(2))), NumAdd(addr, Num(3)))

\* readWord(address): the object after the read
readWordUsed(s, address) == readWordAtUsed(s, alignWord(address))

\* mutant: the word is written with its low byte first
writeWordAtLittleEndian(s, addr, value) ==
  writeMemory(
    writeMemory(
      writeMemory(
        writeMemory(s, addr, BitAnd(value, Num(255))),
        NumAdd(addr, Num(1)), BitAnd(Shru(value, Num(8)), Num(255))),
      NumAdd(addr, Num(2)), BitAnd(Shru(value, Num(16)), Num(255))),
    NumAdd(addr, Num(3)), BitAnd(Shru(value, Num(24)), Num(255)))

\* writeWord at the aligned address addr
writeWordAt(s, addr, value) ==
  writeMemory(
    writeMemory(
      writeMemory(
        writeMemory(s, addr, BitAnd(Shru(value, Num(24)), Num(255))),
        NumAdd(addr, Num(1)), BitAnd(Shru(value, Num(16)), Num(255))),
      NumAdd(addr, Num(2)), BitAnd(Shru(value, Num(8)), Num(255))),
    NumAdd(addr, Num(3)), BitAnd(value, Num(255)))

\* writeWord(address, value)
writeWord(s, address, value) == writeWordAt(s, alignWord(address), value)

\* mutant: the 16 bits are taken as unsigned
signExtend16Unsigned(value) == BitAnd(value, Num(65535))

signExtend16(value) == Shr(Shl(value, Num(16)), Num(16))

\* decodeInstruction: the fields are small integers
decodeInstruction(instruction) ==
  LET w == ToUint32(instruction)
  IN [opcode |-> w[1] \div 1024,
      rs |-> (w[1] \div 32) % 32,
      rt |-> w[1] % 32,
      rd |-> w[2] \div 2048,
      shamt |-> (w[2] \div 64) % 32,
      funct |-> w[2] % 64,
      immediate |-> w[2],
      address |-> (w[1] % 1024) * W16 + w[2]]

generateControlSignals(decoded) ==
  LET signals == [RegWrite |-> FALSE, MemRead |-> FALSE, MemWrite |-> FALSE,
                  MemToReg |-> FALSE, Branch |-> FALSE, Jump |-> FALSE,
                  ALUSrc |-> FALSE, RegDst |-> FALSE, ALUOp |-> 0]
      op == decoded.opcode
  IN CASE op = 0 -> [signals EXCEPT !.RegWrite = TRUE, !.RegDst = TRUE, !.ALUOp = 2]
       [] op = 35 -> [signals EXCEPT !.RegWrite = TRUE, !.MemRead = TRUE,
                                     !.MemToReg = TRUE, !.ALUSrc = TRUE, !.ALUOp = 0]
       [] op = 43 -> [signals EXCEPT !.MemWrite = TRUE, !.ALUSrc = TRUE, !.ALUOp = 0]
       [] op \in {4, 5} -> [signals EXCEPT !.Branch = TRUE, !.ALUOp = 1]
       [] op \in {2, 3} -> [signals EXCEPT !.Jump = TRUE, !.RegWrite = (op = 3)]
       [] op \in {8, 9, 12, 13, 14, 10, 11} ->
            [signals EXCEPT !.RegWrite = TRUE, !.ALUSrc = TRUE,
                            !.ALUOp = IF op \in {8, 9} THEN 0 ELSE 2]
       [] OTHER -> signals


\* x * y for 16-bit x and y
Mul16(x, y) ==
  LET h == x * (y \div 256)
  IN NumAdd(<<h \div 256, (h % 256) * 256>>, Num(x * (y % 256)))

\* the product from the four partial products and the middle sum t1
mulWords(p0, t1, p3) ==
  [hi |-> NumAdd(p3, Num(t1[1])), lo |-> <<t1[2], p0[2]>>]

\* the product from the four partial products
mulParts(p0, p1, p2, p3) == mulWords(p0, NumAdd(NumAdd(p1, p2), Num(p0[1])), p3)

\* BigInt(a) * BigInt(b) for a, b in 0..2^32-1: the high and the low 32 bits
MulU(a, b) ==
  mulParts(Mul16(a[2], b[2]), Mul16(a[2], b[1]), Mul16(a[1], b[2]), Mul16(a[1], b[1]))

\* v less x when the word with high half h is negative
lessIfNegative(h, x, v) == IF h >= H15 THEN NumSub(v, x) ELSE v

\* the signed product from the unsigned product u
mulSigned(a, b, u) ==
  [hi |-> ToUint32(lessIfNegative(b[1], a, lessIfNegative(a[1], b, u.hi))), lo |-> u.lo]

\* BigInt(a | 0) * BigInt(b | 0), a and b given as unsigned words: result >> 32n
\* and result & 0xffffffffn, both as unsigned words
MulS(a, b) == mulSigned(a, b, MulU(a, b))

\* bit k of an unsigned word
BitOf(a, k) == IF k >= 16 THEN (a[1] \div Pow2(k - 16)) % 2 ELSE (a[2] \div Pow2(k)) % 2

\* quotient and remainder of the naturals a and b > 0, from bit k of a down,
\* d.q and d.r those of the bits above bit k
RECURSIVE DivModU(_, _, _, _)
DivModU(a, b, k, d) ==
  IF k < 0 THEN d
  ELSE LET r2 == NumAdd(NumAdd(d.r, d.r), Num(BitOf(a, k)))
       IN IF NumLt(r2, b)
          THEN DivModU(a, b, k - 1, [q |-> NumAdd(d.q, d.q), r |-> r2])
          ELSE DivModU(a, b, k - 1, [q |-> NumAdd(NumAdd(d.q, d.q), Num(1)),
                                     r |-> NumSub(r2, b)])

\* |a| for a signed number of 32 bits
NumAbs(a) == IF NumLt(a, Num(0)) THEN NumSub(Num(0), a) ELSE a

\* the floor of a / b from the quotient and remainder d of |a| and |b|
floorOf(a, b, d) ==
  IF NumLt(a, Num(0)) = NumLt(b, Num(0)) THEN d.q
  ELSE IF d.r = Num(0) THEN NumSub(Num(0), d.q)
  ELSE NumSub(NumSub(Num(0), d.q), Num(1))

\* Math.floor(a / b) for integers a and b # 0 of at most 32 bits
FloorDiv(a, b) == floorOf(a, b, DivModU(NumAbs(a), NumAbs(b), 31, [q |-> Num(0), r |-> Num(0)]))

\* the remainder with the sign of a, from the remainder r of |a| and |b|
remOf(a, r) == IF NumLt(a, Num(0)) THEN NumSub(Num(0), r) ELSE r

\* a % b of the language: the remainder has the sign of a
Rem(a, b) == remOf(a, DivModU(NumAbs(a), NumAbs(b), 31, [q |-> Num(0), r |-> Num(0)]).r)

\* this.registers[parseRegister(a)]
reg(s, a) == s.registers[parseRegister(a)]

\* this.registers[i] = v : a Uint32Array stores v modulo 2^32, NaN and undefined as 0
setRegister(s, i, v) == [s EXCEPT !.registers[i] = ToUint32(v)]

setReg(s, a, v) == setRegister(s, parseRegister(a), v)

\* the address (baseReg + offset) >>> 0 of a load or store
memAddr(s, a) == ToUint32(NumAdd(reg(s, Tok(a.reg)), Num(a.offset)))

\* mutant: every syscall exits
syscallExitsAlways(s) == TRUE

\* the test of the syscall case: this.registers[2] === 10
syscallExits(s) == s.registers[2] = Num(10)

\* this.HI and this.LO set from the product r
setHiLo(s, r) == [s EXCEPT !.HI = r.hi, !.LO = r.lo]

\* mutant: the quotient and the remainder are stored whatever the divisor
\* (Infinity >>> 0 and NaN >>> 0 are 0)
divideUnguarded(s, rsVal, rtVal) ==
  IF rtVal # Num(0)
  THEN [s EXCEPT !.LO = ToUint32(FloorDiv(rsVal, rtVal)),
                 !.HI = ToUint32(Rem(rsVal, rtVal))]
  ELSE [s EXCEPT !.LO = Num(0), !.HI = Num(0)]

\* the body of the div and divu cases
divide(s, rsVal, rtVal) ==
  IF rtVal # Num(0)
  THEN [s EXCEPT !.LO = ToUint32(FloorDiv(rsVal, rtVal)),
                 !.HI = ToUint32(Rem(rsVal, rtVal))]
  ELSE s

\* the lw case at the address addr
loadWord(s, rt, addr) == setReg(readWordUsed(s, addr), rt, readWord(s, addr))

\* the lb case at the address addr
loadByte(s, rt, addr) ==
  setReg(readMemoryUsed(s, addr), rt, signExtend16(Num(readMemory(s, addr))))

\* the lh case at the address addr
loadHalf(s, rt, addr) ==
  setReg(readMemoryUsed(readMemoryUsed(s, addr), NumAdd(addr, Num(1))), rt,
         signExtend16(BitOr(Shl(Num(readMemory(s, addr)), Num(8)),
                            Num(readMemory(s, NumAdd(addr, Num(1)))))))

\* the sh case at the address addr
storeHalf(s, addr, value) ==
  writeMemory(writeMemory(s, addr, BitAnd(Shru(value, Num(8)), Num(255))),
              NumAdd(addr, Num(1)), BitAnd(value, Num(255)))

\* mutant: the return address is the address of the jal itself
linkToCall(s) == setRegister(s, 31, ToUint32(s.PC))

\* the jal case: $ra = PC + 4
link(s) == setRegister(s, 31, ToUint32(NumAdd(s.PC, Num(4))))

\* the switch of executeInstruction: the object after the case of the mnemonic,
\* and nextPC
executeCase(s, instruction, decoded) ==
  LET mnemonic == instruction.mnemonic
      args == instruction.args
      seq == NumAdd(s.PC, Num(4))
      same(t) == [s |-> t, nextPC |-> seq, branchTaken |-> FALSE]
      target == NumAdd(NumAdd(s.PC, Num(4)),
                       Shl(signExtend16(Num(decoded.immediate)), Num(2)))
      branch(taken) == [s |-> s, nextPC |-> IF taken THEN target ELSE seq,
                        branchTaken |-> taken]
      jumpTo == BitOr(BitAnd(NumAdd(s.PC, Num(4)), <<61440, 0>>),
                      Shl(Num(decoded.address), Num(2)))
  IN CASE mnemonic \in {"add", "addu"} ->
            same(setReg(s, args[1], ToUint32(NumAdd(reg(s, args[3]), reg(s, args[2])))))
       [] mnemonic \in {"sub", "subu"} ->
            same(setReg(s, args[1], ToUint32(NumSub(reg(s, args[3]), reg(s, args[2])))))
       [] mnemonic = "and" -> same(setReg(s, args[1], BitAnd(reg(s, args[3]), reg(s, args[2]))))
       [] mnemonic = "or" -> same(setReg(s, args[1], BitOr(reg(s, args[3]), reg(s, args[2]))))
       [] mnemonic = "xor" -> same(setReg(s, args[1], BitXor(reg(s, args[3]), reg(s, args[2]))))
       [] mnemonic = "nor" ->
            same(setReg(s, args[1], BitNot(BitOr(reg(s, args[3]), reg(s, args[2])))))
       [] mnemonic = "sll" ->
            same(setReg(s, args[1], ToUint32(Shl(reg(s, args[2]), parseImmediate(args[3])))))
       [] mnemonic = "srl" ->
            same(setReg(s, args[1], ToUint32(Shru(reg(s, args[2]), parseImmediate(args[3])))))
       [] mnemonic = "sra" ->
            same(setReg(s, args[1], ToUint32(Shr(reg(s, args[2]), parseImmediate(args[3])))))
       [] mnemonic = "sllv" ->
            same(setReg(s, args[1],
                        ToUint32(Shl(reg(s, args[2]), BitAnd(reg(s, args[3]), Num(31))))))
       [] mnemonic = "srlv" ->
            same(setReg(s, args[1],
                        ToUint32(Shru(reg(s, args[2]), BitAnd(reg(s, args[3]), Num(31))))))
       [] mnemonic = "srav" ->
            same(setReg(s, args[1],
                        ToUint32(Shr(reg(s, args[2]), BitAnd(reg(s, args[3]), Num(31))))))
       [] mnemonic = "slt" ->
            same(setReg(s, args[1],
                        IF NumLt(ToInt32(reg(s, args[3])), ToInt32(reg(s, args[2])))
                        THEN Num(1) ELSE Num(0)))
       [] mnemonic = "sltu" ->
            same(setReg(s, args[1],
                        IF NumLt(reg(s, args[3]), reg(s, args[2])) THEN Num(1) ELSE Num(0)))
       [] mnemonic = "mult" ->
            same(setHiLo(s, MulS(reg(s, args[1]), reg(s, args[2]))))
       [] mnemonic = "multu" ->
            same(setHiLo(s, MulU(reg(s, args[1]), reg(s, args[2]))))
       [] mnemonic = "div" ->
            same(divide(s, ToInt32(reg(s, args[1])), ToInt32(reg(s, args[2]))))
       [] mnemonic = "divu" ->
            same(divide(s, reg(s, args[1]), reg(s, args[2])))
       [] mnemonic = "mfhi" -> same(setReg(s, args[1], s.HI))
       [] mnemonic = "mflo" -> same(setReg(s, args[1], s.LO))
       [] mnemonic = "addi" ->
            same(setReg(s, args[1],
                        ToUint32(NumAdd(ToInt32(reg(s, args[2])),
                                        signExtend16(parseImmediate(args[3]))))))
       [] mnemonic = "addiu" ->
            same(setReg(s, args[1],
                        ToUint32(NumAdd(reg(s, args[2]), signExtend16(parseImmediate(args[3]))))))
       [] mnemonic = "andi" ->
            same(setReg(s, args[1],
                        BitAnd(reg(s, args[2]), BitAnd(parseImmediate(args[3]), Num(65535)))))
       [] mnemonic = "ori" ->
            same(setReg(s, args[1],
                        BitOr(reg(s, args[2]), BitAnd(parseImmediate(args[3]), Num(65535)))))
       [] mnemonic = "xori" ->
            same(setReg(s, args[1],
                        BitXor(reg(s, args[2]), BitAnd(parseImmediate(args[3]), Num(65535)))))
       [] mnemonic = "slti" ->
            same(setReg(s, args[1],
                        IF NumLt(ToInt32(reg(s, args[2])), signExtend16(parseImmediate(args[3])))
                        THEN Num(1) ELSE Num(0)))
       [] mnemonic = "sltiu" ->
            same(setReg(s, args[1],
                        IF NumLt(reg(s, args[2]), BitAnd(parseImmediate(args[3]), Num(65535)))
                        THEN Num(1) ELSE Num(0)))
       [] mnemonic = "lui" ->
            same(setReg(s, args[1], ToUint32(Shl(parseImmediate(args[2]), Num(16)))))
       [] mnemonic = "lw" ->
            same(loadWord(s, args[1], memAddr(s, args[2])))
       [] mnemonic = "sw" ->
            same(writeWord(s, memAddr(s, args[2]), reg(s, args[1])))
       [] mnemonic = "lb" ->
            same(loadByte(s, args[1], memAddr(s, args[2])))
       [] mnemonic = "sb" ->
            same(writeMemory(s, memAddr(s, args[2]), BitAnd(reg(s, args[1]), Num(255))))
       [] mnemonic = "lh" ->
            same(loadHalf(s, args[1], memAddr(s, args[2])))
       [] mnemonic = "sh" ->
            same(storeHalf(s, memAddr(s, args[2]), reg(s, args[1])))
       [] mnemonic = "beq" -> branch(reg(s, args[1]) = reg(s, args[2]))
       [] mnemonic = "bne" -> branch(reg(s, args[1]) # reg(s, args[2]))
       [] mnemonic = "bgtz" -> branch(NumLt(Num(0), ToInt32(reg(s, args[1]))))
       [] mnemonic = "blez" -> branch(~NumLt(Num(0), ToInt32(reg(s, args[1]))))
       [] mnemonic = "j" -> [s |-> s, nextPC |-> jumpTo, branchTaken |-> FALSE]
       [] mnemonic = "jal" -> [s |-> link(s), nextPC |-> jumpTo, branchTaken |-> FALSE]
       [] mnemonic = "jr" -> [s |-> s, nextPC |-> reg(s, args[1]), branchTaken |-> FALSE]
       [] mnemonic = "syscall" ->
            same(IF syscallExits(s) THEN [s EXCEPT !.halted = TRUE] ELSE s)
       [] OTHER -> same(s)      \* nop

\* mutant: register 0 is not forced to 0
commitNoZero(s, nextPC) ==
  [s EXCEPT !.PC = nextPC, !.cycle = @ + 1, !.instructionCount = @ + 1]

\* mutant: the instruction count is not advanced
commitNoCount(s, nextPC) ==
  [s EXCEPT !.registers[0] = Num(0), !.PC = nextPC, !.cycle = @ + 1]

\* the end of executeInstruction: register 0, PC and the two counters
commit(s, nextPC) ==
  [s EXCEPT !.registers[0] = Num(0),
            !.PC = nextPC,
            !.cycle = @ + 1,
            !.instructionCount = @ + 1]

\* the end of executeInstruction, c being what the switch left
executeEnd(decoded, c) ==
  [s |-> commit(c.s, c.nextPC),
   decoded |-> decoded, control |-> generateControlSignals(decoded),
   branchTaken |-> c.branchTaken, nextPC |-> c.nextPC]

\* executeInstruction(instruction, address): the object after it, with its return value
executeInstruction(s, instruction) ==
  executeEnd(decodeInstruction(instruction.binary),
             executeCase(s, instruction, decodeInstruction(instruction.binary)))


hexDigits == <<"0", "1", "2", "3", "4", "5", "6", "7", "8", "9",
               "A", "B", "C", "D", "E", "F">>

\* the digits of a natural n < 65536 in the base (2 or 16), most significant
\* first; none for 0
digitsOf(n, base) ==
  LET bits == IF base = 16 THEN 4 ELSE 1
      k == CHOOSE k \in 0..(16 \div bits) :
             (k = 0 \/ Pow2(bits * (k - 1)) <= n) /\ n < Pow2(bits * k)
  IN [i \in 1..k |-> hexDigits[((n \div Pow2(bits * (k - i))) % base) + 1]]

\* String.prototype.padStart(len, "0") on a sequence of characters
padStart(str, len) ==
  IF Len(str) >= len THEN str ELSE [i \in 1..(len - Len(str)) |-> "0"] \o str

\* Number.prototype.toString(base) of an integer, base 2 or 16, upper case:
\* a string is the sequence of its characters
toStringBase(v, base) ==
  LET m == NumAbs(v)
      low == IF base = 16 THEN 4 ELSE 16
      mag == IF m[1] = 0
             THEN (IF m[2] = 0 THEN <<"0">> ELSE digitsOf(m[2], base))
             ELSE digitsOf(m[1], base) \o padStart(digitsOf(m[2], base), low)
  IN IF NumLt(v, Num(0)) THEN <<"-">> \o mag ELSE mag

formatBinary(instruction) ==
  IF ~IsNum(instruction) THEN <<"N/A">> ELSE padStart(toStringBase(instruction, 2), 32)

formatHex(instruction) ==
  IF ~IsNum(instruction) THEN <<"N/A">>
  ELSE <<"0", "x">> \o padStart(toStringBase(instruction, 16), 8)

\* mutant: writing the entry takes a cycle
logDebugTakesCycle(s, instruction, executionResult, pcBeforeExecution) ==
  [s EXCEPT !.cycle = @ + 1,
            !.debugLog =
     Append(@, [cycle |-> s.cycle,
                PC |-> formatHex(pcBeforeExecution),
                instruction |-> [mnemonic |-> instruction.mnemonic, args |-> instruction.args],
                binary |-> formatBinary(instruction.binary),
                hex |-> formatHex(instruction.binary),
                decoded |-> executionResult.decoded,
                control |-> executionResult.control,
                registers |-> s.registers,
                HI |-> s.HI,
                LO |-> s.LO])]

\* mutant: the entry holds the PC of after the instruction
logDebugCurrentPC(s, instruction, executionResult, pcBeforeExecution) ==
  [s EXCEPT !.debugLog =
     Append(@, [cycle |-> s.cycle,
                PC |-> formatHex(s.PC),
                instruction |-> [mnemonic |-> instruction.mnemonic, args |-> instruction.args],
                binary |-> formatBinary(instruction.binary),
                hex |-> formatHex(instruction.binary),
                decoded |-> executionResult.decoded,
                control |-> executionResult.control,
                registers |-> s.registers,
                HI |-> s.HI,
                LO |-> s.LO])]

\* logDebug(instruction, executionResult, pcBeforeExecution): the entry pushed;
\* the instruction text of the entry is given by its mnemonic and operands
logDebug(s, instruction, executionResult, pcBeforeExecution) ==
  [s EXCEPT !.debugLog =
     Append(@, [cycle |-> s.cycle,
                PC |-> formatHex(pcBeforeExecution),
                instruction |-> [mnemonic |-> instruction.mnemonic, args |-> instruction.args],
                binary |-> formatBinary(instruction.binary),
                hex |-> formatHex(instruction.binary),
                decoded |-> executionResult.decoded,
                control |-> executionResult.control,
                registers |-> s.registers,
                HI |-> s.HI,
                LO |-> s.LO])]

\* mutant: the quotient is not truncated, and a fractional index finds no
\* instruction
instructionIndexExact(pc) ==
  IF BitAnd(pc, Num(3)) = Num(0) THEN Shru(NumSub(pc, TextBase), Num(2))
  ELSE <<65535, 65535>>

\* the index (this.PC - 0x00400000) >>> 2
instructionIndex(pc) == Shru(NumSub(pc, TextBase), Num(2))

\* mutant: a halted program is stepped
stepRefusedUnloaded(s) == ~s.loaded

\* the first test of step: nothing is executed
stepRefused(s) == ~s.loaded \/ s.halted

\* mutant: the PC is moved on past the missing instruction
pcOutOfBoundsSkips(s) ==
  [s EXCEPT !.halted = TRUE,
            !.PC = NumAdd(@, Num(4)),
            !.result = Result("step", FALSE, FALSE, <<"PC out of bounds">>, TRUE, -1, -1)]

\* step() when the index is outside this.instructions
pcOutOfBounds(s) ==
  [s EXCEPT !.halted = TRUE,
            !.result = Result("step", FALSE, FALSE, <<"PC out of bounds">>, TRUE, -1, -1)]

\* the end of step, e being what executeInstruction returned
stepEnd(s, instruction, e) ==
  [(IF s.debugMode THEN logDebug(e.s, instruction, e, s.PC) ELSE e.s)
     EXCEPT !.result = Result("step", TRUE, FALSE, << >>, FALSE, -1, -1)]

\* step() at the index idx of this.instructions
stepAt(s, idx) ==
  IF ~NumLt(idx, Num(Len(s.instructions)))
  THEN pcOutOfBounds(s)
  ELSE stepEnd(s, s.instructions[Small(idx) + 1],
               executeInstruction(s, s.instructions[Small(idx) + 1]))

\* step()
step(s) ==
  IF stepRefused(s)
  THEN [s EXCEPT !.result = Result("step", FALSE, FALSE, <<"Program not loaded or halted">>,
                                   FALSE, -1, -1)]
  ELSE stepAt(s, instructionIndex(s.PC))

maxSteps == 10000

\* mutant: a halted program is run
runRefusedUnloaded(s) == ~s.loaded

\* the first test of run
runRefused(s) == ~s.loaded \/ s.halted

\* mutant: one pass too many
loopConditionOffByOne(r) == ~r.failed /\ ~r.s.halted /\ r.steps <= maxSteps

\* the condition of the while loop of run, r = [s, steps, failed]; failed is the
\* return from inside the loop
loopCondition(r) == ~r.failed /\ ~r.s.halted /\ r.steps < maxSteps

\* the pass of the loop whose step left t
pass(r, t) ==
  IF ~t.result.success THEN [s |-> t, steps |-> r.steps, failed |-> TRUE]
  ELSE [s |-> t, steps |-> r.steps + 1, failed |-> FALSE]

\* one pass of the loop
runBody(r) == pass(r, step(r.s))

LoopDepth == 4

\* at most 10^k passes of the loop, ten at a time so that the evaluation stays
\* shallow
RECURSIVE runPasses(_, _)
runPasses(r, k) ==
  LET r1 == runPasses(r, k - 1)
      r2 == runPasses(r1, k - 1)
      r3 == runPasses(r2, k - 1)
      r4 == runPasses(r3, k - 1)
      r5 == runPasses(r4, k - 1)
      r6 == runPasses(r5, k - 1)
      r7 == runPasses(r6, k - 1)
      r8 == runPasses(r7, k - 1)
      r9 == runPasses(r8, k - 1)
  IN CASE ~loopCondition(r) -> r
       [] k = 0 -> runBody(r)
       [] ~loopCondition(r1) -> r1
       [] ~loopCondition(r2) -> r2
       [] ~loopCondition(r3) -> r3
       [] ~loopCondition(r4) -> r4
       [] ~loopCondition(r5) -> r5
       [] ~loopCondition(r6) -> r6
       [] ~loopCondition(r7) -> r7
       [] ~loopCondition(r8) -> r8
       [] ~loopCondition(r9) -> r9
       [] OTHER -> runPasses(r9, k - 1)

\* the while loop: passes until the condition fails
RECURSIVE runLoop(_)
runLoop(r) == IF ~loopCondition(r) THEN r ELSE runLoop(runPasses(r, LoopDepth))

\* mutant: the step limit halts the program
runReturnHalts(r) ==
  IF r.steps >= maxSteps
  THEN [r.s EXCEPT !.halted = TRUE,
                   !.result = Result("run", FALSE, FALSE, <<"Maximum step limit reached">>,
                                     FALSE, -1, -1)]
  ELSE [r.s EXCEPT !.result = Result("run", TRUE, FALSE, << >>, FALSE, r.steps, -1)]

\* mutant: the halted flag is looked at before the number of steps
runReturnHaltedFirst(r) ==
  IF r.steps >= maxSteps /\ ~r.s.halted
  THEN [r.s EXCEPT !.result = Result("run", FALSE, FALSE, <<"Maximum step limit reached">>,
                                     FALSE, -1, -1)]
  ELSE [r.s EXCEPT !.result = Result("run", TRUE, FALSE, << >>, FALSE, r.steps, -1)]

\* the return of run after the loop, r.failed being false
runReturn(r) ==
  IF r.steps >= maxSteps
  THEN [r.s EXCEPT !.result = Result("run", FALSE, FALSE, <<"Maximum step limit reached">>,
                                     FALSE, -1, -1)]
  ELSE [r.s EXCEPT !.result = Result("run", TRUE, FALSE, << >>, FALSE, r.steps, -1)]

\* the end of run, r being what the loop left
runEnd(r) ==
  IF r.failed
  THEN [r.s EXCEPT !.result = [r.s.result EXCEPT !.op = "run"]]
  ELSE runReturn(r)

\* run()
run(s) ==
  IF runRefused(s)
  THEN [s EXCEPT !.result = Result("run", FALSE, FALSE, <<"Program not loaded or halted">>,
                                   FALSE, -1, -1)]
  ELSE runEnd(runLoop([s |-> s, steps |-> 0, failed |-> FALSE]))

zeroRegisters == [i \in 0..31 |-> Num(0)]

\* mutant: the memory survives a reset
resetKeepsMemory(s) ==
  [s EXCEPT !.registers = zeroRegisters,
            !.PC = TextBase,
            !.HI = Num(0),
            !.LO = Num(0),
            !.halted = FALSE,
            !.cycle = 0,
            !.instructionCount = 0,
            !.debugLog = << >>,
            !.usedMemoryAddresses = {},
            !.instructions = IF ~s.loaded THEN << >> ELSE @,
            !.labels = IF ~s.loaded THEN [defined |-> TRUE, map |-> << >>] ELSE @,
            !.result = Result("reset", TRUE, FALSE, << >>, FALSE, -1, -1)]

\* mutant: reset unloads the program
resetClearsProgram(s) ==
  [s EXCEPT !.registers = zeroRegisters,
            !.memory = << >>,
            !.PC = TextBase,
            !.HI = Num(0),
            !.LO = Num(0),
            !.halted = FALSE,
            !.cycle = 0,
            !.instructionCount = 0,
            !.debugLog = << >>,
            !.usedMemoryAddresses = {},
            !.instructions = << >>,
            !.labels = [defined |-> TRUE, map |-> << >>],
            !.loaded = FALSE,
            !.result = Result("reset", TRUE, FALSE, << >>, FALSE, -1, -1)]

\* mutant: reset clears the loaded flag and keeps the program for one call
resetUnloads(s) ==
  [s EXCEPT !.registers = zeroRegisters,
            !.memory = << >>,
            !.PC = TextBase,
            !.HI = Num(0),
            !.LO = Num(0),
            !.halted = FALSE,
            !.cycle = 0,
            !.instructionCount = 0,
            !.debugLog = << >>,
            !.usedMemoryAddresses = {},
            !.instructions = IF ~s.loaded THEN << >> ELSE @,
            !.labels = IF ~s.loaded THEN [defined |-> TRUE, map |-> << >>] ELSE @,
            !.loaded = FALSE,
            !.result = Result("reset", TRUE, FALSE, << >>, FALSE, -1, -1)]

\* reset()
reset(s) ==
  [s EXCEPT !.registers = zeroRegisters,
            !.memory = << >>,
            !.PC = TextBase,
            !.HI = Num(0),
            !.LO = Num(0),
            !.halted = FALSE,
            !.cycle = 0,
            !.instructionCount = 0,
            !.debugLog = << >>,
            !.usedMemoryAddresses = {},
            !.instructions = IF ~s.loaded THEN << >> ELSE @,
            !.labels = IF ~s.loaded THEN [defined |-> TRUE, map |-> << >>] ELSE @,
            !.result = Result("reset", TRUE, FALSE, << >>, FALSE, -1, -1)]

\* getState()
getState(s) ==
  [registers |-> s.registers, memory |-> s.memory, PC |-> s.PC, HI |-> s.HI,
   LO |-> s.LO, cycle |-> s.cycle, instructionCount |-> s.instructionCount,
   halted |-> s.halted, loaded |-> s.loaded, instructions |-> s.instructions]

\* setDebugMode(enabled)
setDebugMode(s, enabled) ==
  [s EXCEPT !.debugMode = enabled,
            !.result = Result("setDebugMode", TRUE, FALSE, << >>, FALSE, -1, -1)]

\* the click handler of btnLoad: the text is trimmed and refused when empty;
\* otherwise reset, loaded = false, loadProgram, inside a try
btnLoad(s, lines) ==
  IF lines = << >>
  THEN [s EXCEPT !.result = Result("btnLoad", FALSE, FALSE, <<"No program entered.">>,
                                   FALSE, -1, -1)]
  ELSE [loadProgram([reset(s) EXCEPT !.loaded = FALSE], lines)
          EXCEPT !.result = [@ EXCEPT !.op = "btnLoad"]]

(***************************************************************************)
(* The programs given to load.                                             *)
(***************************************************************************)

\* scenario S1
progArith ==
  << Line("", "addi", <<Tok("$t0"), Tok("$zero"), Tok("5")>>),
     Line("", "addi", <<Tok("$t1"), Tok("$zero"), Tok("-3")>>),
     Line("", "add", <<Tok("$t2"), Tok("$t0"), Tok("$t1")>>) >>

\* exit by syscall 10, with an instruction after it
progExit ==
  << Line("", "addi", <<Tok("$v0"), Tok("$zero"), Tok("10")>>),
     Line("", "syscall", << >>),
     Line("", "addi", <<Tok("$t0"), Tok("$zero"), Tok("1")>>) >>

\* syscall with $v0 = 4, then writes whose destination is register 0, the
\* load from a word that a store has made non-zero
progZero ==
  << Line("", "addi", <<Tok("$v0"), Tok("$zero"), Tok("4")>>),
     Line("", "Syscall", << >>),
     Line("", "ADDI", <<Tok("$ZERO"), Tok("$v0"), Tok("7")>>),
     Line("", "sw", <<Tok("$v0"), Mem(0, "$zero")>>),
     Line("", "lw", <<Tok("$0"), Mem(0, "$zero")>>),
     Line("", "mflo", <<Tok("$zero")>>) >>

\* a jump through a register that holds 0, below the text segment
progJr ==
  << Line("", "", << >>),
     Line("start", "", << >>),
     Line("", "jr", <<Tok("$a0")>>) >>

\* texts that load rejects
progUnknown ==
  << Line("", "nop", << >>), Line("", "foo", <<Tok("$t0")>>) >>

progArity ==
  << Line("", "nop", << >>), Line("", "add", <<Tok("$t0"), Tok("$t1")>>) >>

progBadReg ==
  << Line("", "nop", << >>), Line("", "addi", <<Tok("$t0"), Tok("$x9"), Tok("1")>>) >>

progNoLabel ==
  << Line("", "nop", << >>), Line("top", "beq", <<Tok("$t0"), Tok("$t0"), Tok("nowhere")>>) >>

progBadMem ==
  << Line("", "nop", << >>), Line("", "lw", <<Tok("$t0"), Tok("$t1")>>) >>

Programs == {progArith, progExit, progZero, progJr}

BadPrograms == {progUnknown, progArity, progBadReg, progNoLabel, progBadMem}

\* an endless loop
progLoop ==
  << Line("loop", "j", <<Tok("loop")>>) >>

\* a loop whose exit syscall is the 10,000th instruction executed
progCount ==
  << Line("", "nop", << >>),
     Line("", "addi", <<Tok("$t0"), Tok("$zero"), Tok("4998")>>),
     Line("loop", "addi", <<Tok("$t0"), Tok("$t0"), Tok("-1")>>),
     Line("", "bne", <<Tok("$t0"), Tok("$zero"), Tok("loop")>>),
     Line("", "addi", <<Tok("$v0"), Tok("$zero"), Tok("10")>>),
     Line("", "syscall", << >>) >>

LoopPrograms == {progLoop, progCount}

\* texts for the encoder: one instruction of each three-register mnemonic,
\* shifts and immediates in and out of the range of their field
RTypeOps == {"add", "addu", "sub", "subu", "and", "or", "xor", "nor", "slt", "sltu"}

ShiftOps == {"sll", "srl", "sra"}

ImmediateOps == {"addi", "ori", "slti"}

BranchOps == {"beq", "bne", "bgtz", "blez"}

JumpOps == {"j", "jal"}

RegisterTriples ==
  {<<"$t0", "$t1", "$t2">>, <<"$s0", "$a0", "$ra">>, <<"$3", "$zero", "$T1">>}

ShiftAmounts == {"4", "7", "32", "33", "-1"}

Immediates == {"7", "-1", "65536", "-32769"}

progRType(op, r) == << Line("", op, <<Tok(r[1]), Tok(r[2]), Tok(r[3])>>) >>

progShift(op, r, shamt) == << Line("", op, <<Tok(r[1]), Tok(r[2]), Tok(shamt)>>) >>

\* the operands of the branch or jump op to the label target
targetArgs(op, target) ==
  CASE op \in {"beq", "bne"} -> <<Tok("$t0"), Tok("$t1"), Tok(target)>>
    [] op \in {"bgtz", "blez"} -> <<Tok("$t0"), Tok(target)>>
    [] OTHER -> <<Tok(target)>>

\* four instructions, op at index i and nop elsewhere, the label "there" on
\* the instruction of index t (after the last instruction when t = 4); op
\* names the label target
progTarget(op, i, t, target) ==
  [k \in 1..5 |->
     Line(IF k = t + 1 THEN "there" ELSE "",
          IF k = i + 1 THEN op ELSE IF k = 5 THEN "" ELSE "nop",
          IF k = i + 1 THEN targetArgs(op, target) ELSE << >>)]

EncodePrograms ==
  {progRType(op, r) : op \in RTypeOps, r \in RegisterTriples}
  \cup {progShift(op, r, shamt) : op \in ShiftOps, r \in {<<"$t0", "$t1">>, <<"$s0", "$ra">>},
                                  shamt \in ShiftAmounts}
  \cup {progShift(op, r, imm) : op \in ImmediateOps, r \in {<<"$t0", "$t1">>},
                                imm \in Immediates}
  \cup {progTarget(op, i, t, "there") : op \in BranchOps \cup JumpOps, i \in {0, 2}, t \in 0..4}
  \cup {progTarget(op, 1, 0, target) : op \in BranchOps \cup JumpOps,
                                       target \in {"nowhere", "toString"}}
  \cup {<< Line("", op, <<Tok("0x00400000")>>) >> : op \in JumpOps}

\* jumps forward, backward, to themselves and past the last instruction, and
\* jumps to a name that the text does not define
JumpPrograms ==
  {progTarget(op, i, t, "there") : op \in JumpOps, i \in {0, 2}, t \in 0..4}
  \cup {progTarget(op, 1, 0, target) : op \in JumpOps, target \in {"nowhere", "toString"}}

\* texts for the arithmetic: one instruction sets each operand register to
\* -7, 2, 0x80000000, 0 or -1, and the instruction under test follows
Values == {<<"addi", "-7">>, <<"addi", "2">>, <<"lui", "0x8000">>, <<"addi", "0">>,
           <<"addi", "-1">>}

setLine(r, v) ==
  IF v[1] = "lui" THEN Line("", "lui", <<Tok(r), Tok(v[2])>>)
  ELSE Line("", v[1], <<Tok(r), Tok("$zero"), Tok(v[2])>>)

progBinary(op, a, b) ==
  << setLine("$t0", a), setLine("$t1", b),
     Line("", op, IF op \in {"div", "divu"} THEN <<Tok("$t0"), Tok("$t1")>>
                  ELSE <<Tok("$t2"), Tok("$t0"), Tok("$t1")>>) >>

progCompare(op, a, imm) ==
  << setLine("$t0", a), Line("", op, <<Tok("$t1"), Tok("$t0"), Tok(imm)>>) >>

ExecPrograms ==
  {progBinary(op, a, b) : op \in {"sub", "subu", "slt", "sltu", "div", "divu"},
                          a \in Values, b \in Values}
  \cup {progCompare(op, a, imm) : op \in {"slti", "sltiu"}, a \in Values,
                                  imm \in {"-1", "2", "-7"}}

\* texts for the memory: $t0 = 0x7F80BEEF or 0xDEADBEEF is stored and $t1 is
\* loaded, at aligned and unaligned addresses inside the memory, at 65536 and
\* at 0xFFFFFFFF
progMemory(upper, store, storeOffset, load, loadOffset) ==
  << Line("", "lui", <<Tok("$t0"), Tok(upper)>>),
     Line("", "ori", <<Tok("$t0"), Tok("$t0"), Tok("0xBEEF")>>),
     Line("", store, <<Tok("$t0"), Mem(storeOffset, "$zero")>>),
     Line("", load, <<Tok("$t1"), Mem(loadOffset, "$zero")>>) >>

\* the same through the base register $t0 = 0x100, with offsets inside and
\* outside the 16 bits of the immediate field
progBase(store, load, offset) ==
  << Line("", "addi", <<Tok("$t0"), Tok("$zero"), Tok("0x100")>>),
     Line("", store, <<Tok("$t0"), Mem(offset, "$t0")>>),
     Line("", load, <<Tok("$t1"), Mem(offset, "$t0")>>) >>

Stores == {"sw", "sh", "sb"}

Loads == {"lw", "lh", "lb"}

MemoryPrograms ==
  {progMemory("0x7F80", store, so, load, lo) :
          store \in Stores, so \in {256, 257}, load \in Loads, lo \in {256, 257}}
  \cup {progMemory(upper, "sw", so, "lw", lo) : upper \in {"0x7F80", "0xDEAD"},
          so \in {258, 259, 65532}, lo \in {258, 259, 65535}}
  \cup {progMemory("0x7F80", store, so, "lw", 256) : store \in Stores, so \in {65536, -1}}
  \cup {progMemory("0x7F80", "sw", 256, load, lo) : load \in Loads, lo \in {65536, -1}}
  \cup {progBase(store, load, offset) :
          store \in Stores, load \in Loads, offset \in {0, -3, 65536, -32769}}

\* scenario S4: a loop of three iterations that ends past the last instruction
progS4 ==
  << Line("", "addi", <<Tok("$t0"), Tok("$zero"), Tok("3")>>),
     Line("", "addi", <<Tok("$t1"), Tok("$zero"), Tok("0")>>),
     Line("loop", "addi", <<Tok("$t1"), Tok("$t1"), Tok("1")>>),
     Line("", "addi", <<Tok("$t0"), Tok("$t0"), Tok("-1")>>),
     Line("", "bne", <<Tok("$t0"), Tok("$zero"), Tok("loop")>>) >>

\* scenario S5: call and return
progS5 ==
  << Line("", "jal", <<Tok("fn")>>),
     Line("", "addi", <<Tok("$v0"), Tok("$zero"), Tok("10")>>),
     Line("", "syscall", << >>),
     Line("fn", "addi", <<Tok("$v1"), Tok("$zero"), Tok("7")>>),
     Line("", "jr", <<Tok("$ra")>>) >>

\* $t0 set to v, then the branch op on $t0 (and $t1 = 0) to the label on the
\* instruction of index t (after the last instruction when t = 4), then two
\* instructions that mark their execution in $t2 and $t3
progBranch(op, v, t) ==
  [k \in 1..5 |->
     Line(IF k = t + 1 THEN "there" ELSE "",
          CASE k = 1 -> "addi" [] k = 2 -> op [] k \in {3, 4} -> "addi" [] OTHER -> "",
          CASE k = 1 -> <<Tok("$t0"), Tok("$zero"), Tok(v)>>
            [] k = 2 -> targetArgs(op, "there")
            [] k = 3 -> <<Tok("$t2"), Tok("$zero"), Tok("1")>>
            [] k = 4 -> <<Tok("$t3"), Tok("$zero"), Tok("1")>>
            [] OTHER -> << >>)]

\* $t0 set to first, then a loop that adds delta to $t0 and ends with the
\* branch op on $t0 (and $t1 = 0) back to its first instruction
progBackward(op, first, delta) ==
  << Line("", "addi", <<Tok("$t0"), Tok("$zero"), Tok(first)>>),
     Line("there", "addi", <<Tok("$t0"), Tok("$t0"), Tok(delta)>>),
     Line("", op, targetArgs(op, "there")) >>

\* a jump through a register that holds 0x00400000 + low: to the last
\* instruction, to the middle of it, or past it
progJrTo(low) ==
  << Line("", "lui", <<Tok("$t0"), Tok("0x0040")>>),
     Line("", "ori", <<Tok("$t0"), Tok("$t0"), Tok(low)>>),
     Line("", "jr", <<Tok("$t0")>>),
     Line("", "addi", <<Tok("$t1"), Tok("$zero"), Tok("1")>>) >>

\* HI and LO made non-zero by a product, then the division op by register 0
\* or by $t0 itself
progDivide(op, divisor) ==
  << Line("", "addi", <<Tok("$t0"), Tok("$zero"), Tok("-7")>>),
     Line("", "multu", <<Tok("$t0"), Tok("$t0")>>),
     Line("", op, <<Tok("$t0"), Tok(divisor)>>) >>

ScenarioPrograms ==
  {progS4, progS5, progExit, progJr, progCount}
  \cup {progBranch(op, v, t) : op \in BranchOps, v \in {"0", "2", "-7"}, t \in {3, 4}}
  \cup {progBackward("beq", "-1", "1"), progBackward("bne", "2", "-1"),
        progBackward("bgtz", "2", "-1"), progBackward("blez", "-3", "2")}
  \cup {progJrTo(low) : low \in {"12", "14", "32"}}
  \cup {progDivide(op, divisor) : op \in {"div", "divu"}, divisor \in {"$zero", "$t1", "$t0"}}

MaxCalls == 5

VARIABLES registers, memory, PC, HI, LO, instructions, labels, loaded, halted,
          cycle, instructionCount, debugMode, debugLog, usedMemoryAddresses,
          result, calls, sinceReset, twin

vars == <<registers, memory, PC, HI, LO, instructions, labels, loaded, halted,
          cycle, instructionCount, debugMode, debugLog, usedMemoryAddresses,
          result, calls, sinceReset, twin>>

\* the simulator object of the current state
sim ==
  [registers |-> registers, memory |-> memory, PC |-> PC, HI |-> HI, LO |-> LO,
   instructions |-> instructions, labels |-> labels, loaded |-> loaded,
   halted |-> halted, cycle |-> cycle, instructionCount |-> instructionCount,
   debugMode |-> debugMode, debugLog |-> debugLog,
   usedMemoryAddresses |-> usedMemoryAddresses, result |-> result]

\* reset() was called in the call that returned res
resetCalled(res) ==
  res.op = "reset" \/ (res.op = "btnLoad" /\ res.message # <<"No program entered.">>)

limitReached(res) == res.op = "run" /\ res.message = <<"Maximum step limit reached">>

\* the call that takes the object to t and a second object, twin, to u.
\* calls counts the calls made, and sinceReset records what has happened
\* since the last call of reset: the object was halted, a run ended at the
\* step limit
CallBoth(t, u) ==
  /\ twin' = u
  /\ calls < MaxCalls
  /\ calls' = calls + 1
  /\ registers' = t.registers
  /\ sinceReset' = IF resetCalled(t.result) THEN {}
                   ELSE sinceReset \cup (IF t.halted THEN {"halted"} ELSE {})
                                   \cup (IF limitReached(t.result) THEN {"limit"} ELSE {})
  /\ memory' = t.memory
  /\ PC' = t.PC
  /\ HI' = t.HI
  /\ LO' = t.LO
  /\ instructions' = t.instructions
  /\ labels' = t.labels
  /\ loaded' = t.loaded
  /\ halted' = t.halted
  /\ cycle' = t.cycle
  /\ instructionCount' = t.instructionCount
  /\ debugMode' = t.debugMode
  /\ debugLog' = t.debugLog
  /\ usedMemoryAddresses' = t.usedMemoryAddresses
  /\ result' = t.result

\* the call that takes the object to t, the second object left alone
Call(t) == CallBoth(t, twin)

\* the constructor
Init ==
  /\ registers = zeroRegisters
  /\ memory = << >>
  /\ PC = TextBase
  /\ HI = undefined
  /\ LO = Num(0)
  /\ instructions = << >>
  /\ labels = noLabels
  /\ loaded = FALSE
  /\ halted = FALSE
  /\ cycle = 0
  /\ instructionCount = 0
  /\ debugMode = FALSE
  /\ debugLog = << >>
  /\ usedMemoryAddresses = {}
  /\ result = Result("constructor", TRUE, FALSE, << >>, FALSE, -1, -1)
  /\ calls = 0
  /\ sinceReset = {}
  /\ twin = sim

LoadProgram == \E p \in Programs \cup BadPrograms \cup {<< >>} : Call(loadProgram(sim, p))

BtnLoad == \E p \in Programs \cup BadPrograms \cup {<< >>} : Call(btnLoad(sim, p))

Step == Call(step(sim))

Run == Call(run(sim))

Reset == Call(reset(sim))

SetDebugMode == \E enabled \in BOOLEAN : Call(setDebugMode(sim, enabled))

Next == LoadProgram \/ BtnLoad \/ Step \/ Run \/ Reset \/ SetDebugMode

Spec == Init /\ [][Next]_vars

LoadLoop == \E p \in LoopPrograms : Call(loadProgram(sim, p))

NextRun == LoadLoop \/ Step \/ Run \/ Reset

SpecRun == Init /\ [][NextRun]_vars

LoadEncode == \E p \in EncodePrograms : Call(loadProgram(sim, p))

NextEncode == LoadEncode \/ Reset

SpecEncode == Init /\ [][NextEncode]_vars

LoadJump == \E p \in JumpPrograms : Call(loadProgram(sim, p))

NextJump == LoadJump \/ Step \/ Reset

SpecJump == Init /\ [][NextJump]_vars

LoadExec == \E p \in ExecPrograms : Call(btnLoad(sim, p))

NextExec == LoadExec \/ Step

SpecExec == Init /\ [][NextExec]_vars

LoadMemory == \E p \in MemoryPrograms : Call(btnLoad(sim, p))

NextMemory == LoadMemory \/ Step

SpecMemory == Init /\ [][NextMemory]_vars

LoadScenario == \E p \in ScenarioPrograms : Call(btnLoad(sim, p))

NextScenario == LoadScenario \/ Step \/ Run

SpecScenario == Init /\ [][NextScenario]_vars

\* two objects given the same calls, debug mode set in each independently
LoadBoth == \E p \in Programs \cup BadPrograms :
  CallBoth(loadProgram(sim, p), loadProgram(twin, p))

StepBoth == CallBoth(step(sim), step(twin))

RunBoth == CallBoth(run(sim), run(twin))

ResetBoth == CallBoth(reset(sim), reset(twin))

SetDebugModes == \E a, b \in BOOLEAN : CallBoth(setDebugMode(sim, a), setDebugMode(twin, b))

NextBoth == LoadBoth \/ StepBoth \/ RunBoth \/ ResetBoth \/ SetDebugModes

SpecBoth == Init /\ [][NextBoth]_vars

(***************************************************************************)
(* Properties.                                                             *)
(***************************************************************************)

\* the instruction that a step from this state executes, when there is one
atInstruction == NumLt(instructionIndex(PC), Num(Len(instructions)))
current == instructions[Small(instructionIndex(PC)) + 1]

\* PC is below the text segment, or at or after the end of the program
pcOutside ==
  \/ NumLt(PC, TextBase)
  \/ ~NumLt(PC, NumAdd(TextBase, Num(4 * Len(instructions))))

refusedMessage == <<"Program not loaded or halted">>

\* C1: a loadProgram call that fails leaves the instruction list, the label
\* table, the loaded and halted flags, cycle, instructionCount, the trace log
\* and the touched set exactly as they were before the call.
C1_FailedLoadLeavesState ==
  [][(result'.op = "loadProgram" /\ ~result'.success) =>
       /\ instructions' = instructions
       /\ labels' = labels
       /\ loaded' = loaded
       /\ halted' = halted
       /\ cycle' = cycle
       /\ instructionCount' = instructionCount
       /\ debugLog' = debugLog
       /\ usedMemoryAddresses' = usedMemoryAddresses]_vars

\* C2: register 0 holds 0 in every reachable state.
C2_RegisterZero == registers[0] = Num(0)

\* a step has just committed the addi whose destination is register 0 and
\* whose sum is not 0
C2_Witness ==
  /\ result.op = "step" /\ result.success
  /\ NumLt(instructionIndex(NumSub(PC, Num(4))), Num(Len(instructions)))
  /\ LET done == instructions[Small(instructionIndex(NumSub(PC, Num(4)))) + 1]
     IN /\ done.mnemonic = "addi"
        /\ parseRegister(done.args[1]) = 0
        /\ NumAdd(reg(sim, done.args[2]), parseImmediate(done.args[3])) # Num(0)
  /\ registers[0] = Num(0)

\* C3: step and run called when no program is loaded or when halted is true
\* return a failure and change nothing of PC, registers, HI, LO, memory, the
\* touched set, cycle, instructionCount, halted and the trace log.
C3_RefusedChangesNothing ==
  [][((~loaded \/ halted) /\ result'.op \in {"step", "run"}) =>
       /\ ~result'.success
       /\ UNCHANGED <<PC, registers, HI, LO, memory, usedMemoryAddresses, cycle,
                      instructionCount, halted, debugLog>>]_vars

\* a run was refused on a halted program that has executed instructions and
\* touched memory
C3_Witness ==
  /\ result.op = "run" /\ result.message = refusedMessage
  /\ loaded /\ halted /\ cycle > 0 /\ usedMemoryAddresses # {}

\* C4 as claimed: once halted has become true, no call of step, run,
\* loadProgram or setDebugMode commits an instruction until reset is called.
C4_HaltTerminalUntilReset ==
  [][("halted" \in sinceReset /\ ~resetCalled(result')) =>
       ~(result'.op \in {"step", "run"} /\ instructionCount' # instructionCount)]_vars

\* C4 amended: while halted is true, every call other than reset and a
\* successful load leaves halted true and commits nothing (instructionCount
\* and PC are unchanged).
C4_HaltTerminalUntilResetOrLoad ==
  [][(halted /\ ~resetCalled(result')
             /\ ~(result'.op = "loadProgram" /\ result'.success)) =>
       (halted' /\ instructionCount' = instructionCount /\ PC' = PC)]_vars

\* a step was refused on a program halted by its syscall
C4_Witness ==
  /\ result.op = "step" /\ result.message = refusedMessage
  /\ halted /\ loaded /\ registers[2] = Num(10) /\ atInstruction

\* C5: a run invocation commits at most 10,000 instructions; when it has
\* committed 10,000 it returns the failure 'Maximum step limit reached' and
\* the program remains loaded.
C5_RunBounded ==
  [][(result'.op = "run") =>
       /\ instructionCount' - instructionCount <= maxSteps
       /\ (instructionCount' - instructionCount = maxSteps =>
             /\ ~result'.success
             /\ result'.message = <<"Maximum step limit reached">>
             /\ loaded')]_vars

\* a run of the endless loop has ended at the limit
C5_Witness ==
  /\ limitReached(result) /\ instructionCount >= maxSteps /\ loaded /\ ~halted

\* C6 as claimed: after a run has ended at the step limit, no step or run
\* commits an instruction before reset is called.
C6_NoStepAfterLimit ==
  [][("limit" \in sinceReset /\ ~resetCalled(result')) =>
       ~(result'.op \in {"step", "run"} /\ instructionCount' # instructionCount)]_vars

\* C6 amended: a run that ends at the step limit leaves the program loaded,
\* and leaves halted false unless its last instruction was the exit syscall;
\* a step made next, with halted false and PC at a loaded instruction,
\* commits that instruction.
C6_StepAfterLimitCommits ==
  /\ [](limitReached(result) => (loaded /\ (halted => registers[2] = Num(10))))
  /\ [][(limitReached(result) /\ ~halted /\ atInstruction /\ result'.op = "step") =>
          (result'.success /\ instructionCount' = instructionCount + 1)]_vars

\* a step has committed the 10,001st instruction after a run ended at the limit
C6_Witness ==
  /\ result.op = "step" /\ result.success
  /\ "limit" \in sinceReset /\ instructionCount = maxSteps + 1

\* C7: a step of a loaded, not halted program whose PC is below the text
\* segment or at or after the end of the program sets halted, returns the
\* failure 'PC out of bounds' and changes nothing else.
C7_PcOutOfBounds ==
  [][(loaded /\ ~halted /\ pcOutside /\ result'.op = "step") =>
       /\ halted'
       /\ ~result'.success
       /\ result'.message = <<"PC out of bounds">>
       /\ UNCHANGED <<PC, registers, HI, LO, memory, usedMemoryAddresses, cycle,
                      instructionCount, instructions, labels, loaded, debugMode,
                      debugLog>>]_vars

\* a step has found the PC below the text segment
C7_Witness ==
  /\ result.op = "step" /\ result.message = <<"PC out of bounds">>
  /\ halted /\ NumLt(PC, TextBase)

\* C8: a step that executes syscall sets halted exactly when register 2
\* holds 10; with any other value it changes only PC (by 4), cycle and
\* instructionCount (and, in debug mode, appends its entry to the trace log).
C8_Syscall ==
  [][(loaded /\ ~halted /\ atInstruction /\ result'.op = "step"
             /\ current.mnemonic = "syscall") =>
       /\ halted' = (registers[2] = Num(10))
       /\ PC' = NumAdd(PC, Num(4))
       /\ cycle' = cycle + 1
       /\ instructionCount' = instructionCount + 1
       /\ UNCHANGED <<registers, HI, LO, memory, usedMemoryAddresses, instructions,
                      labels, loaded, debugMode>>
       /\ (~debugMode => debugLog' = debugLog)]_vars

\* a step has executed syscall with register 2 holding 4, and did not halt
C8_Witness ==
  /\ result.op = "step" /\ result.success /\ ~halted
  /\ registers[2] = Num(4)
  /\ NumLt(instructionIndex(NumSub(PC, Num(4))), Num(Len(instructions)))
  /\ instructions[Small(instructionIndex(NumSub(PC, Num(4)))) + 1].mnemonic = "syscall"

\* C9: cycle equals instructionCount in every reachable state; a successful
\* step increases both by exactly 1 and a failed step changes neither.
C9_CycleIsInstructionCount ==
  /\ [](cycle = instructionCount)
  /\ [][(result'.op = "step") =>
          IF result'.success
          THEN cycle' = cycle + 1 /\ instructionCount' = instructionCount + 1
          ELSE cycle' = cycle /\ instructionCount' = instructionCount]_vars

\* a step has committed the second instruction since the load
C9_Witness == result.op = "step" /\ result.success /\ cycle = 2 /\ instructionCount = 2

\* C10: after reset all registers, HI, LO, every memory byte, cycle and
\* instructionCount are 0, the touched set and the trace log are empty,
\* halted is false and PC is 0x00400000.
C10_ResetZeroes ==
  [][(result'.op = "reset") =>
       /\ registers' = zeroRegisters
       /\ HI' = Num(0)
       /\ LO' = Num(0)
       /\ memory' = << >>
       /\ cycle' = 0
       /\ instructionCount' = 0
       /\ usedMemoryAddresses' = {}
       /\ debugLog' = << >>
       /\ ~halted'
       /\ PC' = TextBase]_vars

\* reset has been called on a halted program that had written memory
C10_Witness ==
  /\ result.op = "reset" /\ loaded /\ calls >= 3
  /\ memory = << >> /\ registers = zeroRegisters /\ PC = TextBase

\* C11: reset with a program loaded leaves the instruction list, the label
\* table, the loaded flag and the debug-mode flag as they were and puts PC on
\* the first instruction of a simulator that is not halted, so that the next
\* step executes instruction 0 again; reset with no program loaded leaves
\* the instruction list and the label table empty.
C11_ResetKeepsProgram ==
  [][(result'.op = "reset") =>
       IF loaded
       THEN /\ UNCHANGED <<instructions, labels, loaded, debugMode>>
            /\ PC' = TextBase /\ ~halted'
            /\ (instructions # << >> => atInstruction' /\ current' = instructions[1])
       ELSE /\ instructions' = << >>
            /\ labels' = [defined |-> TRUE, map |-> << >>]
            /\ UNCHANGED <<loaded, debugMode>>]_vars

\* reset has been called, as the fourth call or later, on a loaded program
\* with the debug mode on: the next step executes its first instruction
C11_Witness ==
  /\ result.op = "reset" /\ loaded /\ debugMode /\ instructions # << >>
  /\ atInstruction /\ current = instructions[1] /\ calls >= 4

\* C12: reset is idempotent: in every reachable state two calls of reset in
\* a row give the object that one call gives, and in the state that a reset
\* has produced another reset changes nothing.
C12_ResetIdempotent ==
  /\ reset(reset(sim)) = reset(sim)
  /\ (result.op = "reset" => reset(sim) = sim)

\* reset has been called, as the third call or later, on a loaded program of
\* three instructions or more, and a second reset changes nothing
C12_Witness ==
  /\ result.op = "reset" /\ loaded /\ cycle = 0 /\ Len(instructions) >= 3
  /\ reset(sim) = sim /\ ~debugMode /\ calls >= 3

\* C13: a freshly constructed simulator is zeroed: all registers, HI, LO,
\* the memory, cycle and instructionCount are 0, PC is 0x00400000, loaded and
\* halted are false, and getState returns what it returns after a reset.
C13_FreshIsZeroed ==
  (calls = 0) =>
     /\ registers = zeroRegisters
     /\ HI = Num(0)
     /\ LO = Num(0)
     /\ memory = << >>
     /\ cycle = 0 /\ instructionCount = 0
     /\ PC = TextBase
     /\ ~loaded /\ ~halted
     /\ getState(sim) = getState(reset(sim))

\* C14: after every successful loadProgram, whatever was called before it,
\* the instruction stored at index i has the load address 0x00400000 + 4*i.
C14_LoadAddresses ==
  [][(result'.op = "loadProgram" /\ result'.success) =>
       \A i \in 1..Len(instructions') :
          instructions'[i].address = NumAdd(TextBase, Num(4 * (i - 1)))]_vars

\* C15: every stored three-register instruction 'op rd, rs, rt' has opcode 0,
\* rs = the second operand, rt = the third operand, rd = the first operand,
\* shamt 0 and the funct code of the table; 'add $t0, $t1, $t2' is stored as
\* 0x012A4020.
C15_RTypeFields ==
  \A i \in 1..Len(instructions) :
     instructions[i].mnemonic \in RTypeOps =>
        /\ decodeInstruction(instructions[i].binary) =
             [decodeInstruction(instructions[i].binary) EXCEPT
                !.opcode = 0,
                !.rs = parseRegister(instructions[i].args[2]),
                !.rt = parseRegister(instructions[i].args[3]),
                !.rd = parseRegister(instructions[i].args[1]),
                !.shamt = 0,
                !.funct = functCodes[instructions[i].mnemonic]]
        /\ (/\ instructions[i].mnemonic = "add"
            /\ instructions[i].args = <<Tok("$t0"), Tok("$t1"), Tok("$t2")>>)
           => instructions[i].binary = <<298, 16416>>

\* C16: every stored 'sll/srl/sra rd, rt, shamt' has rs = 0, rt = the second
\* operand, rd = the first operand and, for a shift amount in 0..31, shamt =
\* the third operand.
C16_ShiftFields ==
  \A i \in 1..Len(instructions) :
     instructions[i].mnemonic \in ShiftOps =>
        /\ decodeInstruction(instructions[i].binary).rs = 0
        /\ decodeInstruction(instructions[i].binary).rt = parseRegister(instructions[i].args[2])
        /\ decodeInstruction(instructions[i].binary).rd = parseRegister(instructions[i].args[1])
        /\ parseImmediate(instructions[i].args[3]) \in {Num(n) : n \in 0..31}
           => Num(decodeInstruction(instructions[i].binary).shamt) =
                parseImmediate(instructions[i].args[3])

\* C17: in every stored word each operand affects its own field only: the
\* word of a shift is the word of the same shift by 0 with the low 5 bits of
\* the shift amount in the shamt field, the word of an immediate instruction
\* is the word of the same instruction with immediate 0 and the low 16 bits
\* of the immediate in the immediate field, and every stored word is an
\* integer in 0..2^32-1.
C17_FieldsMasked ==
  \A i \in 1..Len(instructions) :
     /\ instructions[i].binary \in (0..W16 - 1) \X (0..W16 - 1)
     /\ instructions[i].mnemonic \in ShiftOps =>
          instructions[i].binary =
            ToUint32(orField(
              encodeSwitch(instructions[i].mnemonic,
                           [instructions[i].args EXCEPT ![3] = Tok("0")], 3).word,
              BitAnd(parseImmediate(instructions[i].args[3]), Num(31)), 6))
     /\ instructions[i].mnemonic \in ImmediateOps =>
          instructions[i].binary =
            ToUint32(BitOr(
              encodeSwitch(instructions[i].mnemonic,
                           [instructions[i].args EXCEPT ![3] = Tok("0")], 3).word,
              BitAnd(parseImmediate(instructions[i].args[3]), Num(65535))))

\* C18: every stored branch has the opcode of the table; a stored
\* 'beq/bne rs, rt, label' has rs = the first operand and rt = the second, a
\* stored 'bgtz/blez rs, label' has rs = the operand and rt = 0.
C18_BranchFields ==
  \A i \in 1..Len(instructions) :
     /\ instructions[i].mnemonic \in BranchOps =>
          decodeInstruction(instructions[i].binary).opcode =
            opcodes[instructions[i].mnemonic]
     /\ instructions[i].mnemonic \in {"beq", "bne"} =>
          /\ decodeInstruction(instructions[i].binary).rs =
               parseRegister(instructions[i].args[1])
          /\ decodeInstruction(instructions[i].binary).rt =
               parseRegister(instructions[i].args[2])
     /\ instructions[i].mnemonic \in {"bgtz", "blez"} =>
          /\ decodeInstruction(instructions[i].binary).rs =
               parseRegister(instructions[i].args[1])
          /\ decodeInstruction(instructions[i].binary).rt = 0

\* the label operand of a stored branch or jump
labelOperand(instruction) == instruction.args[Len(instruction.args)].text

\* C19: after a successful load every branch at index i names a label that
\* the text defines, at index t say, and the low 16 bits of its word are
\* (t - i - 1) mod 2^16; so a branch to a label defined nowhere makes the
\* load fail.
C19_BranchOffset ==
  [][(result'.op = "loadProgram" /\ result'.success) =>
       \A i \in 1..Len(instructions') :
          instructions'[i].mnemonic \in BranchOps =>
             /\ labelOperand(instructions'[i]) \in DOMAIN labels'.map
             /\ decodeInstruction(instructions'[i].binary).immediate =
                  (labels'.map[labelOperand(instructions'[i])] - (i - 1) - 1) % W16]_vars

\* C20: after a successful load every j/jal to a label defined at index t
\* has the opcode of the table and the 26-bit field (0x00400000 + 4*t) >> 2;
\* the step that executes a j/jal whose field is (0x00400000 + 4*t) >> 2
\* leaves PC = 0x00400000 + 4*t, whose top 4 bits are those of the PC + 4 of
\* before the jump; so the step that executes a j/jal to a label of the table
\* leaves PC on the instruction of that label.
C20_Jump ==
  [][/\ (result'.op = "loadProgram" /\ result'.success) =>
          \A i \in 1..Len(instructions') :
             (/\ instructions'[i].mnemonic \in JumpOps
              /\ labelOperand(instructions'[i]) \in DOMAIN labels'.map) =>
                /\ decodeInstruction(instructions'[i].binary).opcode =
                     opcodes[instructions'[i].mnemonic]
                /\ Num(decodeInstruction(instructions'[i].binary).address) =
                     Shru(NumAdd(TextBase,
                                 Num(4 * labels'.map[labelOperand(instructions'[i])])),
                          Num(2))
     /\ (/\ result'.op = "step" /\ result'.success
         /\ atInstruction /\ current.mnemonic \in JumpOps) =>
          \A t \in 0..Len(instructions) :
             Num(decodeInstruction(current.binary).address) =
               Shru(NumAdd(TextBase, Num(4 * t)), Num(2)) =>
                /\ PC' = NumAdd(TextBase, Num(4 * t))
                /\ BitAnd(PC', <<61440, 0>>) = BitAnd(NumAdd(PC, Num(4)), <<61440, 0>>)
     /\ (/\ result'.op = "step" /\ result'.success
         /\ atInstruction /\ current.mnemonic \in JumpOps
         /\ labelOperand(current) \in DOMAIN labels.map) =>
          PC' = NumAdd(TextBase, Num(4 * labels.map[labelOperand(current)]))]_vars

\* the first call loaded a text whose instruction 0 is a jal to the label
\* after the last instruction, and the second call, a step, executed it
C20_Witness ==
  /\ result.op = "step" /\ result.success /\ calls = 2 /\ cycle = 1
  /\ instructions[1].mnemonic = "jal"
  /\ labels.map[labelOperand(instructions[1])] = 4
  /\ PC = NumAdd(TextBase, Num(16))
  /\ registers[31] = NumAdd(TextBase, Num(4))

\* C21: a j or jal whose operand is a numeric address literal loads: no load
\* fails with the literal reported as an undefined label, and the stored
\* word has the address shifted right by 2 in its 26-bit field, 0x08100000
\* for 'j 0x00400000'.
C21_NumericJump ==
  /\ ~(/\ result.op = "loadProgram" /\ ~result.success
       /\ result.message = <<"Undefined label: ", "0x00400000">>)
  /\ \A i \in 1..Len(instructions) :
        (/\ instructions[i].mnemonic \in JumpOps
         /\ labelOperand(instructions[i]) \in DOMAIN literals) =>
           /\ Num(decodeInstruction(instructions[i].binary).address) =
                BitAnd(Shru(parseImmediate(instructions[i].args[1]), Num(2)),
                       <<1023, 65535>>)
           /\ (/\ instructions[i].mnemonic = "j"
               /\ labelOperand(instructions[i]) = "0x00400000")
              => instructions[i].binary = <<2064, 0>>

\* the step to the primed state has executed an instruction with mnemonic m
executed(m) ==
  /\ result'.op = "step" /\ result'.success
  /\ atInstruction /\ current.mnemonic = m

\* C22: the step that executes 'sub rd, rs, rt' or 'subu rd, rs, rt' leaves
\* rd = (rs - rt) mod 2^32, rs the second operand and rt the third, whatever
\* the register values.
C22_Sub ==
  [][(executed("sub") \/ executed("subu")) =>
       registers'[parseRegister(current.args[1])] =
         ToUint32(NumSub(reg(sim, current.args[2]), reg(sim, current.args[3])))]_vars

\* C23: the step that executes 'slt rd, rs, rt' leaves rd = 1 when rs < rt
\* as signed 32-bit values and 0 otherwise, and 'sltu rd, rs, rt' does so
\* with rs and rt compared as unsigned values, rs the second operand and rt
\* the third.
C23_SetLessThan ==
  [][/\ executed("slt") =>
          registers'[parseRegister(current.args[1])] =
            IF NumLt(ToInt32(reg(sim, current.args[2])), ToInt32(reg(sim, current.args[3])))
            THEN Num(1) ELSE Num(0)
     /\ executed("sltu") =>
          registers'[parseRegister(current.args[1])] =
            IF NumLt(reg(sim, current.args[2]), reg(sim, current.args[3]))
            THEN Num(1) ELSE Num(0)]_vars

\* C24: the step that executes 'sltiu rt, rs, imm' leaves rt = 1 exactly when
\* rs as an unsigned value is less than the immediate sign-extended from 16
\* bits and read as unsigned, and 'slti rt, rs, imm' leaves rt = 1 exactly
\* when rs as a signed value is less than the sign-extended immediate.
C24_SetLessThanImmediate ==
  [][/\ executed("sltiu") =>
          registers'[parseRegister(current.args[1])] =
            IF NumLt(reg(sim, current.args[2]),
                     ToUint32(signExtend16(Num(decodeInstruction(current.binary).immediate))))
            THEN Num(1) ELSE Num(0)
     /\ executed("slti") =>
          registers'[parseRegister(current.args[1])] =
            IF NumLt(ToInt32(reg(sim, current.args[2])),
                     signExtend16(Num(decodeInstruction(current.binary).immediate)))
            THEN Num(1) ELSE Num(0)]_vars

\* the quotient of the signed numbers a and b # 0 truncated toward zero, from
\* the quotient and remainder d of |a| and |b|, and the remainder, which has
\* the sign of a
truncated(a, b, d) ==
  [q |-> IF NumLt(a, Num(0)) = NumLt(b, Num(0)) THEN d.q ELSE NumSub(Num(0), d.q),
   r |-> IF NumLt(a, Num(0)) THEN NumSub(Num(0), d.r) ELSE d.r]

\* C25: the step that executes 'div rs, rt' with rt # 0 leaves in LO the
\* signed quotient truncated toward zero and in HI the signed remainder, so
\* that rs = LO*rt + HI modulo 2^32 (-7 divided by 2 gives LO = -3 and
\* HI = -1); 'divu rs, rt' leaves the unsigned quotient in LO and the
\* unsigned remainder in HI.
C25_Divide ==
  [][/\ (executed("div") /\ reg(sim, current.args[2]) # Num(0)) =>
          LET a == ToInt32(reg(sim, current.args[1]))
              b == ToInt32(reg(sim, current.args[2]))
              t == truncated(a, b, DivModU(NumAbs(a), NumAbs(b), 31, [q |-> Num(0), r |-> Num(0)]))
          IN /\ LO' = ToUint32(t.q)
             /\ HI' = ToUint32(t.r)
             /\ ToUint32(NumAdd(MulU(LO', reg(sim, current.args[2])).lo, HI')) =
                  reg(sim, current.args[1])
             /\ (a = Num(-7) /\ b = Num(2)) => (LO' = ToUint32(Num(-3)) /\ HI' = ToUint32(Num(-1)))
     /\ (executed("divu") /\ reg(sim, current.args[2]) # Num(0)) =>
          /\ NumLt(HI', reg(sim, current.args[2]))
          /\ MulU(LO', reg(sim, current.args[2])).hi = Num(0)
          /\ NumAdd(MulU(LO', reg(sim, current.args[2])).lo, HI') = reg(sim, current.args[1])]_vars

\* the address register[base] + offset modulo 2^32 of the load or store that
\* the step from this state executes
address == memAddr(sim, current.args[2])

\* C26: the step that executes 'lb rt, off(base)' at an address inside the
\* memory that holds the byte b leaves rt = b when b < 0x80 and
\* rt = 0xFFFFFF00 + b when b >= 0x80.
C26_LoadByteSignExtends ==
  [][(executed("lb") /\ NumLt(address, Num(MemorySize))) =>
       registers'[parseRegister(current.args[1])] =
         IF byteAt(memory, Small(address)) < 128
         THEN Num(byteAt(memory, Small(address)))
         ELSE <<65535, 65280 + byteAt(memory, Small(address))>>]_vars

\* the n bytes from the address a, an integer, with its low bits cleared to a
\* multiple of n
aligned(a, n) == (a - (a % n))..(a - (a % n) + n - 1)

\* C27: an access inside the memory is aligned by clearing the low address
\* bits: the step that executes lw or sw at the address A touches the four
\* bytes of the word at A with its low 2 bits cleared, and the step that
\* executes lh or sh at A touches the two bytes of the halfword at A with
\* its low bit cleared, sh leaving there the low 16 bits of rt and lh
\* loading them sign-extended.
C27_Aligned ==
  [][/\ ((executed("lw") \/ executed("sw")) /\ NumLt(address, Num(MemorySize))) =>
          usedMemoryAddresses' = usedMemoryAddresses \cup aligned(Small(address), 4)
     /\ ((executed("lh") \/ executed("sh")) /\ NumLt(address, Num(MemorySize))) =>
          usedMemoryAddresses' = usedMemoryAddresses \cup aligned(Small(address), 2)
     /\ (executed("sh") /\ NumLt(address, Num(MemorySize))) =>
          LET h == Small(address) - (Small(address) % 2)
          IN /\ byteAt(memory', h) = reg(sim, current.args[1])[2] \div 256
             /\ byteAt(memory', h + 1) = reg(sim, current.args[1])[2] % 256
     /\ (executed("lh") /\ NumLt(address, Num(MemorySize))) =>
          LET h == Small(address) - (Small(address) % 2)
          IN registers'[parseRegister(current.args[1])] =
               ToUint32(signExtend16(Num(byteAt(memory, h) * 256 + byteAt(memory, h + 1))))]_vars

\* the address register[base] + signExt16(imm) modulo 2^32, imm the
\* immediate field of the stored word of the load or store that the step
\* from this state executes
encodedAddress ==
  ToUint32(NumAdd(reg(sim, Tok(current.args[2].reg)),
                  signExtend16(Num(decodeInstruction(current.binary).immediate))))

\* C28: the step that executes a load or store accesses the address
\* register[base] + signExt16(imm) modulo 2^32, imm being the immediate field
\* of the stored word: the execution and the encoding agree on the address
\* for every offset that load accepts.
C28_AddressFromEncoding ==
  [][(\E m \in Loads \cup Stores : executed(m)) => address = encodedAddress]_vars

\* the instruction before the one that the step from this state executes
previous == instructions[Small(instructionIndex(PC))]

\* C29: the step that executes 'sw rt, off(base)' at an address A inside the
\* memory leaves bits 31..24, 23..16, 15..8 and 7..0 of rt in the bytes at
\* (A with its low 2 bits cleared) + 0..3, leaves every other byte as it was
\* and has these four addresses in the touched set; the step that executes
\* lw at an address of an aligned word inside the memory loads the bytes of
\* the word, the first as bits 31..24; so an lw that follows an sw to the
\* same aligned word loads the value stored.
C29_WordRoundTrip ==
  [][/\ (executed("sw") /\ NumLt(address, Num(MemorySize))) =>
          LET w == Small(address) - (Small(address) % 4)
              rt == reg(sim, current.args[1])
          IN /\ byteAt(memory', w) = rt[1] \div 256
             /\ byteAt(memory', w + 1) = rt[1] % 256
             /\ byteAt(memory', w + 2) = rt[2] \div 256
             /\ byteAt(memory', w + 3) = rt[2] % 256
             /\ \A a \in (DOMAIN memory \cup DOMAIN memory') \ (w..w + 3) :
                   byteAt(memory', a) = byteAt(memory, a)
             /\ w..w + 3 \subseteq usedMemoryAddresses'
     /\ (executed("lw") /\ NumLt(address, Num(MemorySize))) =>
          LET w == Small(address) - (Small(address) % 4)
          IN registers'[parseRegister(current.args[1])] =
               <<byteAt(memory, w) * 256 + byteAt(memory, w + 1),
                 byteAt(memory, w + 2) * 256 + byteAt(memory, w + 3)>>
     /\ (/\ executed("lw") /\ NumLt(address, Num(MemorySize))
         /\ instructionIndex(PC) # Num(0) /\ previous.mnemonic = "sw"
         /\ NumLt(memAddr(sim, previous.args[2]), Num(MemorySize))
         /\ aligned(Small(memAddr(sim, previous.args[2])), 4) = aligned(Small(address), 4)) =>
          registers'[parseRegister(current.args[1])] = reg(sim, previous.args[1])]_vars

\* 0x7F80BEEF has been stored by sw at the address 259 and loaded by lw from
\* the address 258 of the same word
C29_Witness ==
  /\ result.op = "step" /\ result.success /\ cycle = 4 /\ Len(instructions) = 4
  /\ instructions[3].mnemonic = "sw" /\ instructions[3].args[2].offset = 259
  /\ instructions[4].mnemonic = "lw" /\ instructions[4].args[2].offset = 258
  /\ memory = (256 :> 127) @@ (257 :> 128) @@ (258 :> 190) @@ (259 :> 239)
  /\ usedMemoryAddresses = 256..259
  /\ registers[9] = <<32640, 48879>>

\* the bytes inside the memory that the load or store executed by the step
\* from this state accesses: one byte for lb and sb at the address, the
\* aligned word for lw and sw, the bytes at the address and at the address
\* plus 1 modulo 2^32 for lh and sh
accessed ==
  IF NumLt(address, Num(MemorySize))
  THEN CASE current.mnemonic \in {"lb", "sb"} -> {Small(address)}
         [] current.mnemonic \in {"lw", "sw"} -> aligned(Small(address), 4)
         [] OTHER -> {Small(address), Small(address) + 1} \cap (0..MemorySize - 1)
  ELSE IF current.mnemonic \in {"lh", "sh"} /\ address = <<W16 - 1, W16 - 1>> THEN {0}
  ELSE {}

\* C30: the step that executes a load or store all of whose byte addresses,
\* modulo 2^32, are 65,536 or more leaves the memory and the touched set as
\* they were, a load leaving 0 in its register; every address in the touched
\* set is below 65,536; a step adds to the touched set only addresses that
\* the instruction it commits accesses, and no other call adds any.
C30_OutOfRange ==
  [][/\ ((\E m \in Loads \cup Stores : executed(m)) /\ accessed = {}) =>
          /\ UNCHANGED <<memory, usedMemoryAddresses>>
          /\ current.mnemonic \in Loads => registers'[parseRegister(current.args[1])] = Num(0)
     /\ usedMemoryAddresses' \subseteq 0..MemorySize - 1
     /\ (\E m \in Loads \cup Stores : executed(m)) =>
          /\ usedMemoryAddresses' \ usedMemoryAddresses \subseteq accessed
          /\ \A a \in (DOMAIN memory \cup DOMAIN memory') \ accessed :
                byteAt(memory', a) = byteAt(memory, a)
     /\ ~(\E m \in Loads \cup Stores : executed(m)) =>
          usedMemoryAddresses' \subseteq usedMemoryAddresses]_vars

\* sb to the address 65536 has been executed and has left the memory and
\* the touched set empty
C30_Witness ==
  /\ result.op = "step" /\ result.success /\ cycle = 3 /\ Len(instructions) = 4
  /\ instructions[3].mnemonic = "sb" /\ instructions[3].args[2].offset = 65536
  /\ registers[8] = <<32640, 48879>>
  /\ memory = << >> /\ usedMemoryAddresses = {}
\* the program loaded is the text p, every line of which is an instruction
isProgram(p) ==
  /\ Len(instructions) = Len(p)
  /\ \A i \in 1..Len(p) :
        instructions[i].mnemonic = p[i].mnemonic /\ instructions[i].args = p[i].args

\* the program has halted by running past its last instruction
haltedAtEnd == halted /\ result.message = <<"PC out of bounds">>

\* C31 (as claimed): scenario S4, loaded and executed until it halts at the
\* end of the program, leaves $t0 = 0, $t1 = 3 and instructionCount = 8.
C31_LoopCountsEight ==
  (isProgram(progS4) /\ haltedAtEnd) =>
    registers[8] = Num(0) /\ registers[9] = Num(3) /\ instructionCount = 8

\* C31 (amended): scenario S4, loaded and executed until it halts at the end
\* of the program, leaves $t0 = 0, $t1 = 3 and instructionCount = 11: two
\* instructions before the loop and three iterations of three instructions.
C31_LoopCountsEleven ==
  (isProgram(progS4) /\ haltedAtEnd) =>
    registers[8] = Num(0) /\ registers[9] = Num(3) /\ instructionCount = 11 /\ cycle = 11

\* a run of scenario S4 has ended past the last instruction
C31_Witness ==
  /\ isProgram(progS4) /\ haltedAtEnd /\ result.op = "run"
  /\ PC = NumAdd(TextBase, Num(20))

\* C32: the step that executes 'jal L' at address A leaves $ra = A + 4 and
\* PC on the instruction of label L; the step that executes 'jr $ra' leaves
\* PC = $ra, which in scenario S5 is A + 4, the instruction after the jal,
\* since nothing between the two writes $ra; and when scenario S5 has halted
\* $v1 = 7, $v0 = 10 and $ra is still A + 4.
C32_CallAndReturn ==
  [][/\ executed("jal") =>
          /\ registers'[31] = NumAdd(PC, Num(4))
          /\ labelOperand(current) \in DOMAIN labels.map =>
                PC' = NumAdd(TextBase, Num(4 * labels.map[labelOperand(current)]))
     /\ executed("jr") =>
          /\ PC' = reg(sim, current.args[1])
          /\ registers' = registers
          /\ isProgram(progS5) =>
                /\ PC' = NumAdd(TextBase, Num(4))
                /\ instructions[Small(instructionIndex(PC')) + 1].mnemonic = "addi"
                /\ instructions[Small(instructionIndex(PC')) + 1].args[1] = Tok("$v0")
     /\ (isProgram(progS5) /\ halted)' =>
          /\ registers'[3] = Num(7) /\ registers'[2] = Num(10)
          /\ registers'[31] = NumAdd(TextBase, Num(4))
          /\ instructionCount' = 5]_vars

\* the fourth call, a step, executed the 'jr $ra' of scenario S5 and
\* returned to the instruction after the jal
C32_Witness ==
  /\ isProgram(progS5) /\ result.op = "step" /\ result.success /\ cycle = 3
  /\ registers[3] = Num(7) /\ registers[31] = NumAdd(TextBase, Num(4))
  /\ PC = NumAdd(TextBase, Num(4))

\* the trace log of after the call is that of before it with n entries more
extendedBy(n) ==
  /\ Len(debugLog') = Len(debugLog) + n
  /\ SubSeq(debugLog', 1, Len(debugLog)) = debugLog

\* C33: a step that commits an instruction with debug mode on appends one
\* entry, with the PC of before the instruction and the cycle count of after
\* it; a run with debug mode on appends one such entry for each instruction
\* it commits, in order; a step or run with debug mode off, a refused or
\* failed step, a failed load, a load of no text and setDebugMode leave the
\* log as it is; a successful load and a reset empty it; and so the cycles
\* of the log are strictly increasing and none is beyond the cycle count.
C33_TraceLog ==
  [][/\ (result'.op = "step" /\ result'.success) =>
          IF debugMode
          THEN /\ extendedBy(1)
               /\ debugLog'[Len(debugLog')].PC = formatHex(PC)
               /\ debugLog'[Len(debugLog')].cycle = cycle'
               /\ cycle' = cycle + 1
          ELSE debugLog' = debugLog
     /\ (result'.op = "step" /\ ~result'.success) => debugLog' = debugLog
     /\ result'.op = "run" =>
          IF debugMode
          THEN /\ extendedBy(instructionCount' - instructionCount)
               /\ \A k \in 1..(instructionCount' - instructionCount) :
                     debugLog'[Len(debugLog) + k].cycle = cycle + k
               /\ instructionCount' > instructionCount =>
                     debugLog'[Len(debugLog) + 1].PC = formatHex(PC)
          ELSE debugLog' = debugLog
     /\ (resetCalled(result') \/ (result'.op = "loadProgram" /\ result'.success)) =>
          debugLog' = << >>
     /\ (\/ result'.op = "setDebugMode"
         \/ (result'.op = "loadProgram" /\ ~result'.success)
         \/ (result'.op = "btnLoad" /\ ~resetCalled(result'))) => debugLog' = debugLog
     /\ \A i \in 1..Len(debugLog') :
          /\ debugLog'[i].cycle \in 1..cycle'
          /\ \A j \in 1..(i - 1) : debugLog'[j].cycle < debugLog'[i].cycle]_vars

\* a step with debug mode off, then two steps with it on: the log holds the
\* second and third instructions
C33_Witness ==
  /\ result.op = "step" /\ result.success /\ debugMode /\ instructionCount = 3
  /\ Len(debugLog) = 2 /\ debugLog[1].cycle = 2 /\ debugLog[2].cycle = 3
  /\ debugLog[2].PC = formatHex(NumAdd(TextBase, Num(8)))

\* the architectural state of the object s
architectural(s) ==
  [registers |-> s.registers, memory |-> s.memory, HI |-> s.HI, LO |-> s.LO,
   PC |-> s.PC, halted |-> s.halted, cycle |-> s.cycle]

\* C34: two objects constructed alike and given the same calls of
\* loadProgram (with the same text), step, run and reset have the same
\* registers, memory, HI, LO, PC, halted flag and cycle after every call,
\* whatever the debug mode of each is set to along the way; the calls also
\* return alike.
C34_Determinism ==
  /\ architectural(sim) = architectural(twin)
  /\ instructionCount = twin.instructionCount
  /\ result = twin.result

\* a run with debug mode on in one object only has stored to memory: the
\* logs differ
C34_Witness ==
  /\ result.op = "run" /\ debugMode /\ ~twin.debugMode
  /\ Len(debugLog) >= 4 /\ twin.debugLog = << >>
  /\ memory # << >> /\ usedMemoryAddresses # {}

\* the condition of the branch that a step from this state executes
branchCondition ==
  CASE current.mnemonic = "beq" -> reg(sim, current.args[1]) = reg(sim, current.args[2])
    [] current.mnemonic = "bne" -> reg(sim, current.args[1]) # reg(sim, current.args[2])
    [] current.mnemonic = "bgtz" -> NumLt(Num(0), ToInt32(reg(sim, current.args[1])))
    [] current.mnemonic = "blez" -> ~NumLt(Num(0), ToInt32(reg(sim, current.args[1])))

\* C35: the step that executes a beq, bne, bgtz or blez to a label of the
\* program leaves PC on the instruction of the label (0x00400000 + 4*t for
\* the label at index t) when the condition holds, and on PC + 4 when it
\* does not; either way it commits that one instruction only and writes no
\* register, so the instruction after a taken branch is not executed; and a
\* step with PC just past the last instruction, where a branch to a label
\* after the last instruction leaves it, fails with 'PC out of bounds' and
\* halts.
C35_BranchCommits ==
  [][/\ (/\ result'.op = "step" /\ result'.success /\ atInstruction
         /\ current.mnemonic \in BranchOps
         /\ labelOperand(current) \in DOMAIN labels.map) =>
          /\ PC' = IF branchCondition
                   THEN NumAdd(TextBase, Num(4 * labels.map[labelOperand(current)]))
                   ELSE NumAdd(PC, Num(4))
          /\ registers' = registers /\ memory' = memory
          /\ instructionCount' = instructionCount + 1
          /\ ~halted'
     /\ (/\ result'.op = "step" /\ loaded /\ ~halted
         /\ PC = NumAdd(TextBase, Num(4 * Len(instructions)))) =>
          /\ ~result'.success /\ result'.message = <<"PC out of bounds">>
          /\ halted' /\ PC' = PC /\ instructionCount' = instructionCount]_vars

\* a beq at index 1 was taken to the label at index 3, and the next step
\* executed the instruction there ($t3 = 1), not the one at index 2 ($t2)
C35_Witness ==
  /\ result.op = "step" /\ result.success /\ cycle = 3
  /\ instructions[2].mnemonic = "beq" /\ labels.map["there"] = 3
  /\ registers[11] = Num(1) /\ registers[10] = Num(0)
  /\ PC = NumAdd(TextBase, Num(16))

\* an address that is a multiple of 4
wordAligned(pc) == BitAnd(pc, Num(3)) = Num(0)

jrPresent == \E i \in 1..Len(instructions) : instructions[i].mnemonic = "jr"

\* C36: PC leaves the multiples of 4 only through a jr: a call that takes PC
\* from a multiple of 4 to another value is a step that executes a jr whose
\* register holds that value, or a run of a program with a jr in it; the jr
\* succeeds without halting, and a step at a misaligned PC inside the text
\* executes the instruction at the truncated index and succeeds.
C36_OnlyJrMisaligns ==
  [][/\ (wordAligned(PC) /\ ~wordAligned(PC')) =>
          \/ /\ executed("jr")
             /\ PC' = reg(sim, current.args[1])
             /\ ~halted'
          \/ result'.op = "run" /\ jrPresent
     /\ (/\ result'.op = "step" /\ loaded /\ ~halted
         /\ ~wordAligned(PC) /\ ~pcOutside) =>
          /\ result'.success
          /\ instructionCount' = instructionCount + 1]_vars

\* a jr has set PC to 0x0040000E and the next step has executed the addi at
\* index 3 from there without error
C36_Witness ==
  /\ result.op = "step" /\ result.success /\ ~halted
  /\ Len(instructions) = 4 /\ instructions[3].mnemonic = "jr"
  /\ PC = NumAdd(TextBase, Num(18)) /\ registers[9] = Num(1)
  /\ instructionCount = 4

\* C37: the step that executes 'div rs, rt' or 'divu rs, rt' with rt
\* holding 0 succeeds without halting and leaves HI, LO, every register and
\* all of memory as they were, along with the program, the labels, the trace
\* log and the touched set; PC grows by 4, cycle and instructionCount by 1.
C37_DivideByZero ==
  [][\A m \in {"div", "divu"} :
       (executed(m) /\ reg(sim, current.args[2]) = Num(0)) =>
         /\ HI' = HI /\ LO' = LO
         /\ registers' = registers /\ memory' = memory
         /\ ~halted' /\ loaded'
         /\ instructions' = instructions /\ labels' = labels
         /\ debugLog' = debugLog /\ debugMode' = debugMode
         /\ usedMemoryAddresses' = usedMemoryAddresses
         /\ PC' = NumAdd(PC, Num(4))
         /\ cycle' = cycle + 1
         /\ instructionCount' = instructionCount + 1]_vars

\* a divu by $zero has been stepped over with HI and LO still holding the
\* product 0xFFFFFFF9 * 0xFFFFFFF9 of the multu before it
C37_Witness ==
  /\ result.op = "step" /\ result.success /\ cycle = 3
  /\ Len(instructions) = 3 /\ instructions[3].mnemonic = "divu"
  /\ instructions[3].args[2] = Tok("$zero")
  /\ HI = <<65535, 65522>> /\ LO = Num(49)
  /\ PC = NumAdd(TextBase, Num(12))

\* the control signals of the instruction at index i of the loaded program
controlOf(i) == generateControlSignals(decodeInstruction(instructions[i].binary))

\* C38: for every instruction of the loaded program the control signals have
\* MemRead true exactly when it is lw, lh or lb, MemWrite true exactly when
\* it is sw, sh or sb, and Branch true exactly when it is beq, bne, bgtz or
\* blez; MemRead and MemWrite are never both true.
C38_ControlSignals ==
  \A i \in 1..Len(instructions) :
    /\ controlOf(i).MemRead <=> instructions[i].mnemonic \in Loads
    /\ controlOf(i).MemWrite <=> instructions[i].mnemonic \in Stores
    /\ controlOf(i).Branch <=> instructions[i].mnemonic \in BranchOps
    /\ ~(controlOf(i).MemRead /\ controlOf(i).MemWrite)

\* C39: a loadProgram call that succeeds leaves the registers, HI, LO,
\* memory, PC and the debug-mode flag as they were; it installs the
\* instruction list whose length it returns and a label table, sets loaded,
\* clears halted, zeroes cycle and instructionCount and empties the trace
\* log and the touched set. PC restarts at 0x00400000 only in the Load
\* handler of the page, which resets before it loads.
C39_LoadFrame ==
  [][/\ (result'.op = "loadProgram" /\ result'.success) =>
          /\ registers' = registers /\ HI' = HI /\ LO' = LO
          /\ memory' = memory /\ PC' = PC /\ debugMode' = debugMode
          /\ Len(instructions') = result'.instructions
          /\ labels'.defined
          /\ \A l \in DOMAIN labels'.map : labels'.map[l] \in 0..Len(instructions')
          /\ loaded' /\ ~halted'
          /\ cycle' = 0 /\ instructionCount' = 0
          /\ debugLog' = << >> /\ usedMemoryAddresses' = {}
     /\ (result'.op = "btnLoad" /\ result'.success) =>
          /\ PC' = TextBase /\ registers' = zeroRegisters
          /\ loaded' /\ ~halted' /\ cycle' = 0]_vars

\* a text was loaded by loadProgram after instructions of the text before it
\* had run, with no reset between: PC and $t0 are what the execution left
C39_Witness ==
  /\ result.op = "loadProgram" /\ result.success
  /\ PC # TextBase /\ registers[8] = Num(5)
  /\ cycle = 0 /\ instructionCount = 0 /\ loaded /\ ~halted

\* the program has no syscall, jump or branch: execution falls off its end
straightLine ==
  \A i \in 1..Len(instructions) :
    instructions[i].mnemonic \notin {"syscall", "j", "jal", "jr"} \cup BranchOps

\* the instruction before PC is a syscall and $v0 holds 10
exitedBySyscall ==
  LET idx == instructionIndex(NumSub(PC, Num(4)))
  IN /\ NumLt(idx, Num(Len(instructions)))
     /\ instructions[Small(idx) + 1].mnemonic = "syscall"
     /\ registers[2] = Num(10)

\* C40: a run call returns success only with the program halted by a
\* syscall with $v0 = 10 after 1 to 9,999 instructions of that call, and the
\* steps it returns are the instructions it executed; a run of a loaded
\* program that falls off its end returns the failure 'PC out of bounds'
\* with halted set and PC outside the text; and a run in which the halting
\* syscall is the 10,000th instruction returns the failure 'Maximum step
\* limit reached'.
C40_RunReturns ==
  [][result'.op = "run" =>
       /\ result'.success =>
            /\ halted' /\ exitedBySyscall'
            /\ result'.steps \in 1..(maxSteps - 1)
            /\ instructionCount' = instructionCount + result'.steps
       /\ (loaded /\ ~halted /\ straightLine /\ ~result'.thrown) =>
            /\ ~result'.success /\ result'.message = <<"PC out of bounds">>
            /\ halted' /\ pcOutside'
       /\ result'.message = <<"PC out of bounds">> =>
            ~result'.success /\ halted' /\ pcOutside'
       /\ (loaded /\ ~halted /\ halted'
           /\ instructionCount' = instructionCount + maxSteps) =>
            /\ ~result'.success
            /\ result'.message = <<"Maximum step limit reached">>
            /\ exitedBySyscall']_vars

\* run has returned 'Maximum step limit reached' from the program whose exit
\* syscall was the 10,000th instruction: the program is halted all the same
C40_Witness ==
  /\ result.op = "run" /\ ~result.success
  /\ result.message = <<"Maximum step limit reached">>
  /\ halted /\ exitedBySyscall /\ instructionCount = maxSteps

====
